---- MODULE Spec2Model ----
(***************************************************************************)
(* Evidence aggregation and verdict engine of the Trustek fact-checker     *)
(* (src/fact-checker/app.py): one verification request retrieves evidence  *)
(* articles for the primary claim, scores every article (stance, four      *)
(* weight factors, combined weight) and reduces the scored evidence to a   *)
(* verdict, a confidence and a citation list.  Around it: the trust tier   *)
(* of a URL (credibility_score.py), claim extraction (claim_extraction.py),*)
(* the remote stance client with its circuit breaker (stance.py), the     *)
(* cross-verification counts and the count-based final score of           *)
(* verify_news (predict_fake.py), the combined web search                  *)
(* (fetch_sources.py) and the HTTP routes that serve a request (server.py).*)
(*                                                                         *)
(* Numbers.  Python floats are modelled as exact decimals in fixed point:  *)
(*   stance_score                      tenths          (10     = 1.0)      *)
(*   trust factor                      tenths          (10     = 1.0)      *)
(*   recency factor                    1/10000         (10000  = 1.0)      *)
(*   entity and numeric factors        hundredths      (100    = 1.0)      *)
(*   combined weight                   1/10000         (10000  = 1.0)      *)
(*   support / refute / neutral        1/100000        (100000 = 1.0)      *)
(*   fields rounded to 3 decimals      thousandths     (1000   = 1.0)      *)
(*   numbers found in a text           tenths          (125    = 12.5)     *)
(*   fuzzy similarity                  hundredths      (60     = 0.6)      *)
(*   time, delays, cooldown            tenths of a second (300 = 30 s)     *)
(* Binary representation error of the floats is not modelled.              *)
(*                                                                         *)
(* Texts are sequences of tokens of a fixed vocabulary; Vocab records for  *)
(* each token what the regular expressions of the code find in it.         *)
(***************************************************************************)
EXTENDS Integers, Sequences, FiniteSets, TLC

VARIABLES
    claim,      \* primary_claim of the request (a token sequence)
    pool,       \* evidence_articles returned by search_evidence_for_claim
    idx,        \* number of evidence_articles the scoring loop has consumed
    evidence,   \* the list of scored evidence records
    pc,         \* position of the request: "idle", "cross", "retrieve",
                \* "scoring", "done", "raised", "responded"
    out,        \* scan_details["claim_verdict"] once it has been computed
    resolved,   \* for each evidence record: how its stance was resolved
    cross,      \* cross_details: articles found, confirmed and disputed counts
    bias,       \* bias_result of check_bias
    final,      \* "final" of the response of verify_news
    exc,        \* <<message of the exception the request raised>>, <<>> if none
    http,       \* the route serving the request and the response it has sent
    prev,       \* <<what the previous request of the process ended with>>
    env,        \* what the process found at import time (optional modules)
    fin,        \* argument of a function called on its own, "idle" if none
    fout,       \* <<what that call returned>>, <<>> before it returns
    _CB_FAILS,      \* stance.py: failed invocations the breaker has counted
    _CB_OPEN_UNTIL, \* stance.py: time until which the breaker is open, 0 if unset
    now,            \* time.time(), in tenths of a second since the process started
    calls,          \* for each thread: its position inside call_ml_service
    failedSince     \* failed invocations completed since the last completed success

\* the variables of one verification request
pipeVars == <<claim, pool, idx, evidence, pc, out, resolved, cross, bias, final, exc>>
\* what the evidence steps of a request leave alone
verVars == <<cross, bias, final, exc>>
\* the variables of a function called on its own
probeVars == <<fin, fout>>
\* the variables of the remote stance client and its circuit breaker
cbVars == <<_CB_FAILS, _CB_OPEN_UNTIL, now, calls, failedSince>>
\* the variables of the HTTP layer and of the sequence of requests
reqVars == <<http, prev>>
\* what a step of the request pipeline leaves alone
notPipe == <<env, probeVars, cbVars, reqVars>>
\* what a step of call_ml_service leaves alone
notCB == <<pipeVars, env, probeVars, reqVars>>

vars == <<pipeVars, env, probeVars, cbVars, reqVars>>

---------------------------------------------------------------------------
(* Bounds of the model *)

\* longest raw result list handed to the scoring pipeline
MaxEvidence == 3
\* invocations of call_ml_service one thread makes, alone and with another
MaxCallsSeq == 5
MaxCallsConc == 2
\* the time horizon, in tenths of a second
MaxNow == 700
\* longest text given to extract_claims, in chunks
MaxChunks == 9
\* longest result list of the cross-verification search
MaxCross == 2
\* longest raw result list when stance resolution may fail
MaxItems == 2
\* longest result list of either search when two requests are compared
MaxPair == 1
\* largest magnitude of a count handed to calculate_final_score on its own
MaxCount == 2
\* longest article list a search provider answers with
MaxHits == 2
\* largest max_results handed to search_web_multi on its own
MaxResults == 2
\* longest raw result list in the specification of the weight functions
MaxW == 1

---------------------------------------------------------------------------
(* Python built-ins *)

Max(a, b) == IF a >= b THEN a ELSE b
Min(a, b) == IF a <= b THEN a ELSE b

\* round(n / d) for d > 0: to the nearest integer, a tie to the even one
PyRound(n, d) ==
    LET q == n \div d
        r == n % d
    IN  IF 2 * r < d THEN q
        ELSE IF 2 * r > d THEN q + 1
        ELSE IF q % 2 = 0 THEN q ELSE q + 1

\* the elements of a sequence, as a set
Range(s) == {s[i] : i \in 1..Len(s)}

---------------------------------------------------------------------------
(* Vocabulary: what each regular expression finds in a token.              *)
(*   cap  - the token itself when \b[A-Z][a-zA-Z\-]{2,}\b matches it       *)
(*   low  - the lower-cased match of [a-zA-Z][a-zA-Z\-']+ , "" when none   *)
(*   num  - the matches of \b\d+(?:\.\d+)?%?\b after norm(): a percent     *)
(*          sign is part of the match only when a word character follows   *)
(*          it, so "12%" before a blank is the absolute number 12          *)

NoNum == <<>>
Abs(v) == <<[kind |-> "abs", val |-> v]>>
Pct(v) == <<[kind |-> "pct", val |-> v]>>

Vocab ==
    "Nasa"  :> [cap |-> TRUE,  low |-> "nasa",  num |-> NoNum] @@
    "Mars"  :> [cap |-> TRUE,  low |-> "mars",  num |-> NoNum] @@
    "Isro"  :> [cap |-> TRUE,  low |-> "isro",  num |-> NoNum] @@
    "UN"    :> [cap |-> FALSE, low |-> "un",    num |-> NoNum] @@
    "rover" :> [cap |-> FALSE, low |-> "rover", num |-> NoNum] @@
    "lands" :> [cap |-> FALSE, low |-> "lands", num |-> NoNum] @@
    "rate"  :> [cap |-> FALSE, low |-> "rate",  num |-> NoNum] @@
    "shocking" :> [cap |-> FALSE, low |-> "shocking", num |-> NoNum] @@
    "BREAKING" :> [cap |-> TRUE,  low |-> "breaking", num |-> NoNum] @@
    "12"    :> [cap |-> FALSE, low |-> "",      num |-> Abs(120)] @@
    "12.5"  :> [cap |-> FALSE, low |-> "",      num |-> Abs(125)] @@
    "13"    :> [cap |-> FALSE, low |-> "",      num |-> Abs(130)] @@
    "14"    :> [cap |-> FALSE, low |-> "",      num |-> Abs(140)] @@
    "50"    :> [cap |-> FALSE, low |-> "",      num |-> Abs(500)] @@
    "1000"  :> [cap |-> FALSE, low |-> "",      num |-> Abs(10000)] @@
    "1040"  :> [cap |-> FALSE, low |-> "",      num |-> Abs(10400)] @@
    "12%"   :> [cap |-> FALSE, low |-> "",      num |-> Abs(120)] @@
    "12%a"  :> [cap |-> FALSE, low |-> "",      num |-> Pct(120)] @@
    "15%a"  :> [cap |-> FALSE, low |-> "",      num |-> Pct(150)] @@
    "16%a"  :> [cap |-> FALSE, low |-> "",      num |-> Pct(160)]

\* re.findall(r"\b[A-Z][a-zA-Z\-]{2,}\b", text), as the set the code builds
CapsOf(text) == {t \in Range(text) : Vocab[t].cap}

\* set(re.findall(r"[a-zA-Z][a-zA-Z\-']+", text.lower()))
WordsOf(text) == {Vocab[t].low : t \in {u \in Range(text) : Vocab[u].low # ""}}

RECURSIVE NumsOf(_)
\* [norm(n) for n in re.findall(r"\b\d+(?:\.\d+)?%?\b", text)], in text order
NumsOf(text) ==
    IF text = <<>> THEN <<>>
    ELSE Vocab[Head(text)].num \o NumsOf(Tail(text))

---------------------------------------------------------------------------
(* Trust tier of a URL.  A URL is [host: sequence of labels, path]; the    *)
(* empty string is the URL with no host.                                   *)

\* A URL string by its parts: "https://www.bbc.com:8080/2" has scheme "https",
\* host <<"www", "bbc", "com">>, port 8080 and path 2; a string without "//"
\* has scheme ""; None is a value of its own.
UrlOf(s, h, pt, p) == [none |-> FALSE, scheme |-> s, host |-> h, port |-> pt, path |-> p]
NoneUrl == [none |-> TRUE, scheme |-> "", host |-> <<>>, port |-> 0, path |-> 0]
EmptyUrl == UrlOf("", <<>>, 0, 0)
Url(h, p) == UrlOf("https", h, 0, p)

\* sources["high"] and sources["medium"], as the repository's tests fix them
HighDomains == {<<"reuters", "com">>, <<"bbc", "com">>, <<"apnews", "com">>}
MediumDomains == {<<"cnn", "com">>, <<"foxnews", "com">>}

LastLabels(h, k) == SubSeq(h, Len(h) - k + 1, Len(h))

\* suffixes the public suffix list of tldextract knows, among the labels used
PublicSuffixes == {<<"com">>, <<"in">>, <<"xyz">>, <<"uk">>, <<"co", "uk">>}

\* tldextract.extract(url).registered_domain: the label before the longest
\* public suffix and that suffix; "" (here <<>>) when there is none.  The
\* scheme and the port are stripped, a missing scheme is accepted.
RegisteredDomain(url) ==
    LET h == url.host
        k == IF Len(h) >= 2 /\ LastLabels(h, 2) \in PublicSuffixes THEN 2
             ELSE IF Len(h) >= 1 /\ LastLabels(h, 1) \in PublicSuffixes THEN 1
             ELSE 0
    IN  IF k = 0 \/ Len(h) <= k THEN <<>> ELSE LastLabels(h, k + 1)

\* a label with an unbalanced "[" makes urlparse raise ValueError
BracketLabels == {"[bad"}
UrlparseRaises(url) == \E i \in 1..Len(url.host) : url.host[i] \in BracketLabels

\* the naive extraction: the text before ":" of urlparse(url).netloc, its
\* last two labels; a netloc of one label is returned whole, port included
\* (the port is the pseudo-label ":port"); a string without "//" has no netloc
NaiveDomain(url) ==
    IF UrlparseRaises(url) THEN <<>>
    ELSE LET netloc == IF url.scheme = "" THEN <<>>
                       ELSE IF url.port = 0 THEN url.host
                       ELSE Append(url.host, ":port")
             parts == IF url.scheme = "" THEN <<>> ELSE url.host
         IN  IF Len(parts) >= 2 THEN LastLabels(parts, 2) ELSE netloc

\* the mutant: the whole host is taken for the domain
_domain_from_url_FullHost(url) ==
    IF url.none \/ url = EmptyUrl THEN <<>> ELSE url.host

\* None and "" are returned as <<>>, which get_source_rank reads as ""
_domain_from_url(url) ==
    IF url.none \/ url = EmptyUrl THEN <<>>
    ELSE IF env.tldextract THEN RegisteredDomain(url)
    ELSE NaiveDomain(url)

get_source_rank(url) ==
    LET domain == _domain_from_url(url)
    IN  IF domain \in HighDomains THEN 3
        ELSE IF domain \in MediumDomains THEN 2
        ELSE 1

\* {3: 1.0, 2: 0.7, 1: 0.4}.get(r, 0.4), in tenths
_snippet_weight_by_trust(url) ==
    LET r == get_source_rank(url)
    IN  IF r = 3 THEN 10 ELSE IF r = 2 THEN 7 ELSE 4

---------------------------------------------------------------------------
(* Recency.  A publication date string is [kind, age]: kind "none" is a    *)
(* missing date, "bad" a string datetime.fromisoformat rejects, "iso" a    *)
(* date that parses; age is (now - dt).days, negative for a future date.   *)

NoDate == [kind |-> "none", age |-> 0]
BadDate == [kind |-> "bad", age |-> 0]
IsoDate(a) == [kind |-> "iso", age |-> a]

_parse_date_to_age_days(ds) ==
    IF ds.kind = "none" THEN 9999
    ELSE IF ds.kind = "bad" THEN 9999
    ELSE Max(0, ds.age)

\* 0.5 ** (r / 180.0) for r = 0 .. 179, in 1/10000
DecayDay == <<
    10000, 9962, 9923, 9885, 9847, 9809, 9772, 9734, 9697, 9659, 9622, 9585, 9548, 9512, 9475,
    9439, 9402, 9366, 9330, 9294, 9259, 9223, 9188, 9152, 9117, 9082, 9047, 9013, 8978, 8943,
    8909, 8875, 8841, 8807, 8773, 8739, 8706, 8672, 8639, 8606, 8572, 8539, 8507, 8474, 8441,
    8409, 8377, 8344, 8312, 8280, 8249, 8217, 8185, 8154, 8123, 8091, 8060, 8029, 7998, 7968,
    7937, 7907, 7876, 7846, 7816, 7786, 7756, 7726, 7696, 7667, 7637, 7608, 7579, 7549, 7520,
    7492, 7463, 7434, 7405, 7377, 7349, 7320, 7292, 7264, 7236, 7209, 7181, 7153, 7126, 7098,
    7071, 7044, 7017, 6990, 6963, 6936, 6910, 6883, 6857, 6830, 6804, 6778, 6752, 6726, 6700,
    6674, 6649, 6623, 6598, 6572, 6547, 6522, 6497, 6472, 6447, 6422, 6397, 6373, 6348, 6324,
    6300, 6275, 6251, 6227, 6203, 6179, 6156, 6132, 6108, 6085, 6062, 6038, 6015, 5992, 5969,
    5946, 5923, 5900, 5878, 5855, 5833, 5810, 5788, 5766, 5743, 5721, 5699, 5678, 5656, 5634,
    5612, 5591, 5569, 5548, 5527, 5505, 5484, 5463, 5442, 5421, 5400, 5380, 5359, 5338, 5318,
    5297, 5277, 5257, 5236, 5216, 5196, 5176, 5156, 5137, 5117, 5097, 5078, 5058, 5039, 5019 >>

\* 0.5 ** (age / 180.0) for an integer age >= 0, in 1/10000
HalfPow(age) ==
    LET q == age \div 180
        r == age % 180
    IN  IF q >= 15 THEN 0 ELSE PyRound(DecayDay[r + 1], 2 ^ q)

\* variant: a missing date gets the clamp floor instead of the 0.7 fallback
_date_weight_FloorForMissing(published_at) ==
    LET age == _parse_date_to_age_days(published_at)
    IN  Max(5000, Min(10000, HalfPow(age)))

_date_weight(published_at) ==
    LET age == _parse_date_to_age_days(published_at)
    IN  IF age >= 9000 THEN 7000
        ELSE Max(5000, Min(10000, HalfPow(age)))

---------------------------------------------------------------------------
(* Entity overlap and numeric consistency, in hundredths *)

_entity_weight(c, text) ==
    LET caps_claim == CapsOf(c)
        caps_text == CapsOf(text)
    IN  IF caps_claim = {} THEN 80
        ELSE LET n == Max(1, Cardinality(caps_claim))
                 k == Cardinality(caps_claim \cap caps_text)
             IN  Max(50, Min(100, 50 + PyRound(100 * k, n)))

AbsDiff(a, b) == IF a >= b THEN a - b ELSE b - a

\* approx(a, b): same kind; percentages within 3 points; absolute numbers
\* within 1.0 or within 5% of the smaller one
approx(a, b) ==
    IF a.kind # b.kind THEN FALSE
    ELSE IF a.kind = "pct" THEN AbsDiff(a.val, b.val) <= 30
    ELSE \/ AbsDiff(a.val, b.val) <= 10
         \/ /\ Min(a.val, b.val) > 0
            /\ 20 * AbsDiff(a.val, b.val) <= Min(a.val, b.val)

\* variant: the evidence is tested for numbers before the claim is
_number_weight_EvidenceFirst(c, text) ==
    LET c_norm == NumsOf(c)
        t_norm == NumsOf(text)
    IN  IF t_norm = <<>> THEN 70
        ELSE IF c_norm = <<>> THEN 90
        ELSE LET hits == Cardinality({i \in 1..Len(c_norm) :
                             \E j \in 1..Len(t_norm) : approx(c_norm[i], t_norm[j])})
                 len == Max(1, Len(c_norm))
             IN  IF hits = 0 THEN 60
                 ELSE 70 + PyRound(30 * hits, len)

_number_weight(c, text) ==
    LET c_norm == NumsOf(c)
        t_norm == NumsOf(text)
    IN  IF c_norm = <<>> THEN 90
        ELSE IF t_norm = <<>> THEN 70
        ELSE LET hits == Cardinality({i \in 1..Len(c_norm) :
                             \E j \in 1..Len(t_norm) : approx(c_norm[i], t_norm[j])})
                 len == Max(1, Len(c_norm))
             IN  IF hits = 0 THEN 60
                 ELSE 70 + PyRound(30 * hits, len)

---------------------------------------------------------------------------
(* Evidence retrieval: search_evidence_for_claim.  An article is            *)
(* [title, description, url, source, publishedAt]; raw is the stream of     *)
(* search_web_multi results over the expanded queries, in arrival order.    *)

Art(u, t, d, s, p) ==
    [title |-> t, description |-> d, url |-> u, source |-> s, publishedAt |-> p]

\* f"{title} {description}".strip()
EvText(art) == art.title \o art.description

RECURSIVE MergePool(_, _, _)
\* the pool loop: items without a URL or with a URL already seen are skipped,
\* and the loop stops once the pool holds max_results * 2 = 30 items
MergePool(items, seen, acc) ==
    IF items = <<>> \/ Len(acc) >= 30 THEN acc
    ELSE LET it == Head(items)
         IN  IF it.url = EmptyUrl \/ it.url \in seen
             THEN MergePool(Tail(items), seen, acc)
             ELSE MergePool(Tail(items), seen \cup {it.url}, Append(acc, it))

\* score_item: number of claim words found in the title and description
score_item(c, it) == Cardinality(WordsOf(EvText(it)) \cap WordsOf(c))

\* list.sort(key=..., reverse=True) is stable: an entry goes behind every
\* entry whose key is at least its own
InsertDesc(s, e) ==
    LET less == {i \in 1..Len(s) : s[i].k < e.k}
    IN  IF less = {} THEN Append(s, e)
        ELSE LET p == CHOOSE i \in less : \A j \in less : i <= j
             IN  SubSeq(s, 1, p - 1) \o <<e>> \o SubSeq(s, p, Len(s))

RECURSIVE SortDescFrom(_, _)
SortDescFrom(todo, done) ==
    IF todo = <<>> THEN done
    ELSE SortDescFrom(Tail(todo), InsertDesc(done, Head(todo)))

\* the items of a sequence of [k, x] entries, sorted by k descending
SortedDesc(keyed) ==
    LET s == SortDescFrom(keyed, <<>>)
    IN  [i \in 1..Len(s) |-> s[i].x]

search_evidence_for_claim(c, raw) ==
    LET merged == MergePool(raw, {}, <<>>)
        keyed == [i \in 1..Len(merged) |->
                     [k |-> score_item(c, merged[i]), x |-> merged[i]]]
        ranked == SortedDesc(keyed)
    IN  SubSeq(ranked, 1, Min(15, Len(ranked)))

---------------------------------------------------------------------------
(* Scoring of one evidence article (the body of the scoring loop) *)

\* variant: the numeric factor is left out of the product
CombinedWeight_NoNumber(w_trust, w_date, w_entity, w_num) ==
    PyRound(w_trust * w_date * w_entity, 1000)

\* round(w_trust * w_date * w_entity * w_num, 4)
CombinedWeight(w_trust, w_date, w_entity, w_num) ==
    PyRound(w_trust * w_date * w_entity * w_num, 100000)

\* the evidence record appended for an article whose stance resolved to st
ScoreRecord(c, art, st) ==
    LET ev_text == EvText(art)
        w_trust == _snippet_weight_by_trust(art.url)
        w_date == _date_weight(art.publishedAt)
        w_entity == _entity_weight(c, ev_text)
        w_num == _number_weight(c, ev_text)
    IN  [title |-> art.title,
         description |-> art.description,
         url |-> art.url,
         source |-> art.source,
         publishedAt |-> art.publishedAt,
         stance |-> st.stance,
         stance_score |-> st.score,
         weights |-> [trust |-> w_trust * 100,
                      date |-> PyRound(w_date, 10),
                      entity |-> w_entity * 10,
                      number |-> w_num * 10,
                      combined |-> CombinedWeight(w_trust, w_date, w_entity, w_num)]]

---------------------------------------------------------------------------
(* Stance of one article (detailed_scan_analysis, nli_infer) *)

\* set(text.lower().split())
SplitLower(text) ==
    {IF Vocab[t].low # "" THEN Vocab[t].low ELSE t : t \in Range(text)}

\* nli_infer: without the pipeline the token overlap ratio under the label
\* neutral (in tenths, rounded when the ratio has more decimals); with it the
\* pipeline's label and score, neutral 0.0 when it raises
nli_infer(c, text, pipe) ==
    IF ~env.stance_model
    THEN IF c = <<>> \/ text = <<>> THEN [stance |-> "neutral", score |-> 0]
         ELSE LET cs == SplitLower(c)
                  es == SplitLower(text)
                  overlap == Cardinality(cs \cap es)
                  denom == Max(1, Cardinality(cs))
              IN  [stance |-> "neutral", score |-> PyRound(10 * overlap, denom)]
    ELSE IF pipe = <<>> THEN [stance |-> "neutral", score |-> 0]
    ELSE pipe[1]

\* The stance of one article.  _remote_stance and _local_nli are imported
\* from the same module, so both are set or both are None.  call_ml_service
\* has no raising path and returns a dict with a string and a float, so the
\* try block around it completes and used_remote is set whenever
\* _remote_stance is.
ResolveStance(ans, c, text) ==
    LET _remote_stance == env.stance
        _local_nli == env.stance
        used_remote == _remote_stance
    IN  IF used_remote
        THEN [st |-> ans.remote.ret, how |-> ans.remote.how, tiers |-> <<"remote">>]
        ELSE IF _local_nli
        THEN [st |-> ans.local, how |-> "none", tiers |-> <<"local">>]
        ELSE [st |-> nli_infer(c, text, ans.pipe),
              how |-> IF env.stance_model /\ ans.pipe = <<>> THEN "raised" ELSE "none",
              tiers |-> <<"fallback">>]

---------------------------------------------------------------------------
(* Aggregation of the scored evidence (detailed_scan_analysis) *)

\* mult: the combined weight, or the trust weight when combined is 0
Mult(e) ==
    IF e.weights.combined # 0 THEN e.weights.combined
    ELSE _snippet_weight_by_trust(e.url) * 1000

RECURSIVE StanceTotals(_, _)
\* the accumulation loop over the evidence, from the totals acc
StanceTotals(ev, acc) ==
    IF ev = <<>> THEN acc
    ELSE LET e == Head(ev)
             c == e.stance_score * Mult(e)
         IN  StanceTotals(Tail(ev),
                 IF e.stance = "entailment"
                 THEN [acc EXCEPT !.support = @ + c]
                 ELSE IF e.stance = "contradiction"
                 THEN [acc EXCEPT !.refute = @ + c]
                 ELSE [acc EXCEPT !.neutral = @ + c])

ZeroTotals == [support |-> 0, refute |-> 0, neutral |-> 0]

\* variant: the margin tests are strict
VerdictRule_StrictMargin(support, refute) ==
    IF refute - support > 60000 THEN "False"
    ELSE IF support - refute > 60000 THEN "True"
    ELSE IF support > 30000 /\ refute > 30000 THEN "Partly True"
    ELSE IF support + refute < 20000 THEN "Unverified"
    ELSE "Misleading"

\* variant: the Unverified branch is missing
VerdictRule_NoUnverified(support, refute) ==
    IF refute - support >= 60000 THEN "False"
    ELSE IF support - refute >= 60000 THEN "True"
    ELSE IF support > 30000 /\ refute > 30000 THEN "Partly True"
    ELSE "Misleading"

\* variant: the Partly True test comes before the margin tests
VerdictRule_PartlyFirst(support, refute) ==
    IF support > 30000 /\ refute > 30000 THEN "Partly True"
    ELSE IF refute - support >= 60000 THEN "False"
    ELSE IF support - refute >= 60000 THEN "True"
    ELSE IF support + refute < 20000 THEN "Unverified"
    ELSE "Misleading"

\* variant: the margin is 0.4
VerdictRule_Margin04(support, refute) ==
    IF refute - support >= 40000 THEN "False"
    ELSE IF support - refute >= 40000 THEN "True"
    ELSE IF support > 30000 /\ refute > 30000 THEN "Partly True"
    ELSE IF support + refute < 20000 THEN "Unverified"
    ELSE "Misleading"

\* the if / elif chain over the totals
VerdictRule(support, refute) ==
    IF refute - support >= 60000 THEN "False"
    ELSE IF support - refute >= 60000 THEN "True"
    ELSE IF support > 30000 /\ refute > 30000 THEN "Partly True"
    ELSE IF support + refute < 20000 THEN "Unverified"
    ELSE "Misleading"

\* variant: the confidence is not clamped
Confidence_Unclamped(support, refute, neutral) ==
    PyRound(support + refute + neutral, 2000)

\* max(0, min(100, round((support + refute + neutral) * 50)))
Confidence(support, refute, neutral) ==
    Max(0, Min(100, PyRound(support + refute + neutral, 2000)))

\* round(x, 3), in thousandths
Round3(x) == PyRound(x, 100)

\* citation date: (publishedAt or "")[:10]
DatePrefix(p) == IF p.kind = "none" THEN [kind |-> "empty", age |-> 0] ELSE p

\* the mutant: the decisive items are cited in input order, without the sort
_build_explanation_Unsorted(c, verdict, ev, confidence) ==
    LET decisive == SelectSeq(ev, LAMBDA e : e.stance \in {"entailment", "contradiction"})
        top == SubSeq(decisive, 1, Min(2, Len(decisive)))
        citations == [i \in 1..Len(top) |->
                         [index |-> i,
                          source |-> top[i].source,
                          date |-> DatePrefix(top[i].publishedAt),
                          url |-> top[i].url]]
        sent3 == IF top = <<>> THEN "No decisive sources found." ELSE "refs"
    IN  [para |-> [claim |-> c, verdict |-> verdict, sent3 |-> sent3],
         citations |-> citations]

_build_explanation(c, verdict, ev, confidence) ==
    LET decisive == SelectSeq(ev, LAMBDA e : e.stance \in {"entailment", "contradiction"})
        keyed == [i \in 1..Len(decisive) |->
                     [k |-> decisive[i].stance_score, x |-> decisive[i]]]
        sorted == SortedDesc(keyed)
        top == SubSeq(sorted, 1, Min(2, Len(sorted)))
        citations == [i \in 1..Len(top) |->
                         [index |-> i,
                          source |-> top[i].source,
                          date |-> DatePrefix(top[i].publishedAt),
                          url |-> top[i].url]]
        sent3 == IF top = <<>> THEN "No decisive sources found." ELSE "refs"
    IN  [para |-> [claim |-> c, verdict |-> verdict, sent3 |-> sent3],
         citations |-> citations]

\* the mutant: a corroborated request is never left Unverified
ClaimVerdict_Merged(c, ev) ==
    LET t == StanceTotals(ev, ZeroTotals)
        rule == VerdictRule(t.support, t.refute)
        verdict == IF rule = "Unverified" /\ cross.confirmed_count > 0
                   THEN "Misleading" ELSE rule
        verdict_conf == Confidence(t.support, t.refute, t.neutral)
        expl == _build_explanation(c, verdict, ev, verdict_conf)
    IN  [verdict |-> verdict,
         confidence |-> verdict_conf,
         stance_totals |-> [support |-> Round3(t.support),
                            refute |-> Round3(t.refute),
                            neutral |-> Round3(t.neutral)],
         citations |-> expl.citations,
         sent3 |-> expl.para.sent3,
         evidence_count |-> Len(ev)]

\* the mutant: the total of the other labels counts towards support
ClaimVerdict_NeutralCounts(c, ev) ==
    LET t == StanceTotals(ev, ZeroTotals)
        verdict == VerdictRule(t.support + t.neutral, t.refute)
        verdict_conf == Confidence(t.support, t.refute, t.neutral)
        expl == _build_explanation(c, verdict, ev, verdict_conf)
    IN  [verdict |-> verdict,
         confidence |-> verdict_conf,
         stance_totals |-> [support |-> Round3(t.support),
                            refute |-> Round3(t.refute),
                            neutral |-> Round3(t.neutral)],
         citations |-> expl.citations,
         sent3 |-> expl.para.sent3,
         evidence_count |-> Len(ev)]

\* scan_details["claim_verdict"] for the scored evidence ev
ClaimVerdict(c, ev) ==
    LET t == StanceTotals(ev, ZeroTotals)
        verdict == VerdictRule(t.support, t.refute)
        verdict_conf == Confidence(t.support, t.refute, t.neutral)
        expl == _build_explanation(c, verdict, ev, verdict_conf)
    IN  [verdict |-> verdict,
         confidence |-> verdict_conf,
         stance_totals |-> [support |-> Round3(t.support),
                            refute |-> Round3(t.refute),
                            neutral |-> Round3(t.neutral)],
         citations |-> expl.citations,
         sent3 |-> expl.para.sent3,
         evidence_count |-> Len(ev)]

NoVerdict ==
    [verdict |-> "none", confidence |-> 0, stance_totals |-> ZeroTotals,
     citations |-> <<>>, sent3 |-> "", evidence_count |-> 0]

---------------------------------------------------------------------------
(* Cross-verification, bias analysis and the final score (verify_news) *)

\* re.findall(r"[A-Za-z][A-Za-z\-]{1,}\b", text), in text order
KeywordTokens(text) == SelectSeq(text, LAMBDA t : Vocab[t].low # "")

\* t[0].isupper()
StartsUpper(t) == Vocab[t].low # t

RECURSIVE Dedupe(_, _)
\* the elements of a sequence in order, each once
Dedupe(todo, done) ==
    IF todo = <<>> THEN done
    ELSE Dedupe(Tail(todo),
                IF Head(todo) \in Range(done) THEN done ELSE Append(done, Head(todo)))

\* the lower-case words of the vocabulary in alphabetical order
Alphabetical ==
    <<"breaking", "isro", "lands", "mars", "nasa", "rate", "rover", "shocking", "un">>

\* extract_keywords(text, max_terms=5): the capitalized tokens first, each
\* once, then the lower-case words by descending frequency and alphabet
\* whose capitalized or upper-case form is not among them; at most 5
extract_keywords(text) ==
    LET tokens == KeywordTokens(text)
        caps == Dedupe(SelectSeq(tokens, StartsUpper), <<>>)
        out1 == SubSeq(caps, 1, Min(5, Len(caps)))
        lows == SelectSeq(Alphabetical, LAMBDA w : \E i \in 1..Len(tokens) : Vocab[tokens[i]].low = w)
        freq(w) == Cardinality({i \in 1..Len(tokens) : Vocab[tokens[i]].low = w})
        common == SortedDesc([i \in 1..Len(lows) |-> [k |-> freq(lows[i]), x |-> lows[i]]])
        fresh == SelectSeq(common, LAMBDA w : \A i \in 1..Len(out1) : Vocab[out1[i]].low # w)
        terms == IF Len(out1) < 5 THEN out1 \o fresh ELSE out1
    IN  SubSeq(terms, 1, Min(5, Len(terms)))

\* a search result of the cross-verification with fuzzy_similarity(text,
\* title) in hundredths, as difflib computes it for the request text; nulls
\* names the fields among title and description that are null in the
\* provider's JSON and so None in the dict search_web builds
CrossArt(u, t, d, nulls, sim) ==
    [url |-> u, title |-> t, description |-> d, nulls |-> nulls, sim |-> sim]

\* a result with a title and an empty description
CrossItem(u, t, sim) == CrossArt(u, t, <<>>, {}, sim)

\* is_similar = sim >= 0.6 or keyword_hits >= max(1, len(keywords)//2)
is_similar(text, item) ==
    LET keywords == extract_keywords(text)
        lowered == {IF kw \in DOMAIN Vocab THEN Vocab[kw].low ELSE kw : kw \in Range(keywords)}
        keyword_hits == Cardinality(lowered \cap SplitLower(item.title))
    IN  item.sim >= 60 \/ keyword_hits >= Max(1, Len(keywords) \div 2)

\* the words of _SENSATIONAL the vocabulary has
Sensational == {"shocking", "breaking"}

\* the tokens re.findall(r"\b[A-Z]{5,}\b", ...) matches
AllCaps5 == {"BREAKING"}

\* article_title + " " + article_desc raises TypeError when either is None
\* (an f-string formats None, the + operator does not)
SourceRaises(article) == article.nulls # {}

\* str(e) of that TypeError: None + " " when the title is None, otherwise
\* "title " + None
SourceError(article) ==
    IF "title" \in article.nulls
    THEN "unsupported operand type(s) for +: 'NoneType' and 'str'"
    ELSE "can only concatenate str (not \"NoneType\") to str"

\* the mutant: the relevance bonus is granted from 30 percent on
analyze_individual_source_BonusFrom30(article, article_rank, original_text) ==
    LET content == article.title \o article.description
        found_sensational == {Vocab[t].low : t \in Range(content)} \cap Sensational
        caps_words == SelectSeq(content, LAMBDA t : t \in AllCaps5)
        bias_score == Cardinality(found_sensational) + Len(caps_words)
        original_words == SplitLower(original_text)
        common_words == original_words \cap SplitLower(content)
        k == Cardinality(common_words)
        n == Cardinality(original_words)
        relevance_percentage == IF n = 0 THEN 0 ELSE PyRound(k * 10000, n)
        relevance_bonus == IF relevance_percentage >= 3000 THEN 1 ELSE 0
    IN  [exact_trust_ranking |-> article_rank,
         sensational_count |-> Cardinality(found_sensational),
         excessive_caps_found |-> caps_words,
         bias_score_for_article |-> bias_score,
         word_overlap_count |-> k,
         relevance_percentage |-> relevance_percentage,
         relevance_score |-> IF 10 * k > 3 * n THEN "High"
                             ELSE IF 10 * k > n THEN "Medium" ELSE "Low",
         relevance_bonus |-> relevance_bonus,
         final_source_score |-> Max(0, article_rank - bias_score + relevance_bonus),
         final_assessment |-> IF article_rank >= 2 /\ bias_score < 3
                              THEN "RELIABLE" ELSE "QUESTIONABLE",
         contributes_to_verdict |-> IF article_rank >= 2 THEN "CONFIRM" ELSE "DISPUTE"]

\* analyze_individual_source(article, article_url, article_rank,
\* original_text) for an article whose title and description are strings;
\* relevance_percentage is in hundredths of a percent
analyze_individual_source(article, article_rank, original_text) ==
    LET content == article.title \o article.description
        found_sensational == {Vocab[t].low : t \in Range(content)} \cap Sensational
        caps_words == SelectSeq(content, LAMBDA t : t \in AllCaps5)
        bias_score == Cardinality(found_sensational) + Len(caps_words)
        original_words == SplitLower(original_text)
        common_words == original_words \cap SplitLower(content)
        k == Cardinality(common_words)
        n == Cardinality(original_words)
        relevance_percentage == IF n = 0 THEN 0 ELSE PyRound(k * 10000, n)
        relevance_bonus == IF relevance_percentage > 3000 THEN 1 ELSE 0
    IN  [exact_trust_ranking |-> article_rank,
         sensational_count |-> Cardinality(found_sensational),
         excessive_caps_found |-> caps_words,
         bias_score_for_article |-> bias_score,
         word_overlap_count |-> k,
         relevance_percentage |-> relevance_percentage,
         relevance_score |-> IF 10 * k > 3 * n THEN "High"
                             ELSE IF 10 * k > n THEN "Medium" ELSE "Low",
         relevance_bonus |-> relevance_bonus,
         final_source_score |-> Max(0, article_rank - bias_score + relevance_bonus),
         final_assessment |-> IF article_rank >= 2 /\ bias_score < 3
                              THEN "RELIABLE" ELSE "QUESTIONABLE",
         contributes_to_verdict |-> IF article_rank >= 2 THEN "CONFIRM" ELSE "DISPUTE"]

NoCross ==
    [articles_found |-> 0, source_breakdown |-> <<>>,
     confirmed_count |-> 0, disputed_count |-> 0]

\* one pass of the loop body for an article whose analysis returns: the
\* article is counted as confirming when it is similar, whatever its rank,
\* and as disputing otherwise, and its source_info is appended
CrossStep(text, article, acc) ==
    LET article_rank == get_source_rank(article.url)
        source_info == analyze_individual_source(article, article_rank, text)
        similar == is_similar(text, article)
        classification ==
            IF article_rank >= 2 /\ similar THEN "Confirming (Trusted & Similar)"
            ELSE IF similar THEN "Confirming (Similar)"
            ELSE "No strong corroboration"
        entry == [article |-> article, info |-> source_info,
                  classification |-> classification, match_score |-> article.sim]
    IN  [acc EXCEPT !.confirmed_count = IF similar THEN @ + 1 ELSE @,
                    !.disputed_count = IF similar THEN @ ELSE @ + 1,
                    !.source_breakdown = Append(@, entry)]

RECURSIVE CrossLoop(_, _, _)
\* the loop over the articles, none of which raises
CrossLoop(text, arts, acc) ==
    IF arts = <<>> THEN acc
    ELSE CrossLoop(text, Tail(arts), CrossStep(text, Head(arts), acc))

\* the first article of the list whose analysis raises
FirstRaising(arts) ==
    arts[CHOOSE i \in 1..Len(arts) :
            /\ SourceRaises(arts[i])
            /\ \A j \in 1..(i - 1) : ~SourceRaises(arts[j])]

\* check_bias(text)["sensational_count"]: the sensational words the lowered
\* text contains, each once, plus the words of 5 or more capitals, each time
check_bias(text) ==
    [sensational_count |->
        Cardinality({Vocab[t].low : t \in Range(text)} \cap Sensational)
        + Len(SelectSeq(text, LAMBDA t : t = "BREAKING"))]

NoBias == [sensational_count |-> 0]

\* dict.get(k, default)
Get(d, k, default) == IF k \in DOMAIN d THEN d[k] ELSE default

calculate_final_score_NoDouble(verification, b) ==
    LET score == Get(verification, "confirmed", 0) - Get(verification, "disputed", 0)
                     - Get(b, "sensational_count", 0)
    IN  [score |-> score,
         verdict |-> IF score >= 3 THEN "Likely True"
                     ELSE IF score >= 0 THEN "Uncertain"
                     ELSE "Likely Fake"]

\* calculate_final_score(verification, bias) (predict_fake.py)
calculate_final_score(verification, b) ==
    LET base == Get(verification, "confirmed", 0) - Get(verification, "disputed", 0)
        sensational_penalty == Get(b, "sensational_count", 0)
        score == base * 2 - sensational_penalty
    IN  [score |-> score,
         verdict |-> IF score >= 3 THEN "Likely True"
                     ELSE IF score >= 0 THEN "Uncertain"
                     ELSE "Likely Fake"]

NoFinal == [score |-> 0, verdict |-> "none"]

---------------------------------------------------------------------------
(* Inputs of the request pipeline *)

FullText == <<"Nasa", "rover", "Mars", "12">>

Claims == {FullText, <<"rover", "lands">>}

Articles ==
    { Art(Url(<<"www", "reuters", "com">>, 1), <<"Nasa", "rover">>, <<"Mars", "12">>,
          "Reuters", IsoDate(0)),
      Art(Url(<<"www", "bbc", "com">>, 2), FullText, <<>>, "BBC", IsoDate(180)),
      Art(Url(<<"apnews", "com">>, 3), <<"Nasa", "Mars">>, <<"rover", "13">>,
          "AP", IsoDate(-30)),
      Art(Url(<<"edition", "cnn", "com">>, 4), <<"Isro", "rate">>, <<>>, "CNN", NoDate),
      Art(Url(<<"random", "blogspot", "com">>, 5), <<>>, <<>>, "Blog", BadDate),
      Art(EmptyUrl, FullText, <<>>, "Anon", IsoDate(0)) }

St(l, s) == [stance |-> l, score |-> s]

\* (label, score) pairs the stance resolution of one article can end with
StanceOutcomes ==
    { St("entailment", 10), St("entailment", 6), St("entailment", 4),
      St("contradiction", 10), St("contradiction", 6), St("contradiction", 4),
      St("neutral", 5), St("supports", 20), St("neutral", -5) }

\* what call_ml_service returned and how it came to return it: "answered" (a
\* 200 response was decoded), "failed" (the attempts ended without one) or
\* "open" (the breaker short-circuited the call)
Remote(how, st) == [how |-> how, ret |-> st]

\* the mutant: a failed call counts against the claim
RemoteFailed_Refutes == Remote("failed", St("contradiction", 5))

\* the two returns of call_ml_service that are not a decoded response
RemoteFailed == Remote("failed", St("neutral", 0))
RemoteOpen == Remote("open", St("neutral", 0))

\* what the three stance tiers answer for one article: call_ml_service, the
\* local model nli_stance, and the transformers pipeline of nli_infer
\* (<<>> when the pipeline raises)
Answers(rs, ls, ps) == {[remote |-> r, local |-> l, pipe |-> p] : r \in rs, l \in ls, p \in ps}

\* the answers whose remote tier decodes a 200 response to one of outcomes
AnsweredWith(outcomes) ==
    Answers({Remote("answered", st) : st \in outcomes}, {St("neutral", 0)}, {<<>>})

SeqsUpTo(S, n) == UNION {[1..k -> S] : k \in 0..n}

---------------------------------------------------------------------------
(* The remote stance client and its circuit breaker (call_ml_service).     *)
(* One step per access to the module-level state, so that the steps of     *)
(* two threads interleave as the interpreter can schedule them.            *)

\* int(os.getenv("ML_CB_THRESHOLD", "3"))
_CB_THRESHOLD == 3
\* float(os.getenv("ML_CB_COOLDOWN_SECONDS", "30")), in tenths of a second
_CB_COOLDOWN == 300
\* backoffs = [0.5, 1.0, 2.0], in tenths of a second
backoffs == <<5, 10, 20>>

Threads == {1, 2}

\* How one HTTP attempt ends: a 200 response whose body decodes ("ok"), a
\* 200 response whose decoding raises ("badbody": res.json(), .lower() or
\* float() raise), a 5xx response, another status ("other", e.g. 404), or
\* requests.post raising ("exc": connection error, timeout).
HttpOutcomes == {"ok", "badbody", "5xx", "other", "exc"}

\* bodies of a 200 response that decode: "" is an absent or empty field
Body(l, sc) == [stance |-> l, score |-> sc]
Bodies == {Body("ENTAILMENT", 9), Body("supports", 20), Body("", 0)}

\* str.lower() on the labels used
LowerOf ==
    "ENTAILMENT" :> "entailment" @@ "supports" :> "supports" @@ "neutral" :> "neutral"

\* stance = (data.get("stance") or "neutral").lower()
\* score = float(data.get("score") or 0.0)
Decode(b) == St(LowerOf[IF b.stance = "" THEN "neutral" ELSE b.stance], b.score)

\* a thread outside call_ml_service that has completed n invocations
IdleCall(n) ==
    [pc |-> "idle", i |-> 0, reg |-> 0, outs |-> <<>>, slept |-> <<>>,
     res |-> St("neutral", 0), ret |-> <<>>, how |-> "none", n |-> n,
     stale |-> FALSE, undid |-> FALSE]

\* no route is serving and no request has ended yet
NoHttp == [route |-> "none", stage |-> "none", raised |-> 0, status |-> 0, detail |-> ""]
ReqIdle == http = NoHttp /\ prev = <<>>

\* the module has been imported and no thread has called yet
CBIdle ==
    /\ _CB_FAILS = 0
    /\ _CB_OPEN_UNTIL = 0
    /\ now = 0
    /\ calls = [t \in Threads |-> IdleCall(0)]
    /\ failedSince = 0

\* the mutant: the comparison with the time is inverted
BreakerOpen_Inverted(t) == _CB_OPEN_UNTIL # 0 /\ t > _CB_OPEN_UNTIL

\* if _CB_OPEN_UNTIL and now < _CB_OPEN_UNTIL
BreakerOpen(t) == _CB_OPEN_UNTIL # 0 /\ t < _CB_OPEN_UNTIL

\* the mutant: the breaker trips one failure late
Trips_Late(fails) == fails > _CB_THRESHOLD

\* if _CB_FAILS >= _CB_THRESHOLD
Trips(fails) == fails >= _CB_THRESHOLD

\* the thread returns a result: the invocation is complete
Returned(c, st, how) ==
    [c EXCEPT !.pc = "idle", !.ret = <<st>>, !.how = how, !.n = @ + 1]

\* the mutant: the failure counter is cleared when the cooldown has expired
Begin_ResetOnExpiry(t, max) ==
    /\ calls[t].pc = "idle"
    /\ calls[t].n < max
    /\ calls' = [calls EXCEPT ![t] =
           IF BreakerOpen(now)
           THEN Returned(IdleCall(@.n), St("neutral", 0), "open")
           ELSE [IdleCall(@.n) EXCEPT !.pc = "attempt", !.i = 1]]
    /\ _CB_FAILS' = IF _CB_OPEN_UNTIL # 0 /\ ~BreakerOpen(now) THEN 0 ELSE _CB_FAILS
    /\ UNCHANGED <<_CB_OPEN_UNTIL, now, failedSince, notCB>>

\* entry: now = time.time(); with the breaker open the call returns at once
Begin(t, max) ==
    /\ calls[t].pc = "idle"
    /\ calls[t].n < max
    /\ calls' = [calls EXCEPT ![t] =
           IF BreakerOpen(now)
           THEN Returned(IdleCall(@.n), St("neutral", 0), "open")
           ELSE [IdleCall(@.n) EXCEPT !.pc = "attempt", !.i = 1]]
    /\ UNCHANGED <<_CB_FAILS, _CB_OPEN_UNTIL, now, failedSince, notCB>>

\* the mutant: an exception is retried after the last attempt too
AfterAttempt_RetryAll(o, i) ==
    IF o = "ok" THEN "reset_fails"
    ELSE IF o = "other" THEN "read_fails"
    ELSE "sleep"

\* where the loop goes after attempt i ended with o: a decoded 200 response
\* leaves through the reset, a 5xx response sleeps (after the last attempt
\* too), an exception sleeps unless the attempt was the last, another status
\* breaks out of the loop
AfterAttempt(o, i) ==
    IF o = "ok" THEN "reset_fails"
    ELSE IF o = "5xx" THEN "sleep"
    ELSE IF o \in {"exc", "badbody"} THEN (IF i < Len(backoffs) THEN "sleep" ELSE "read_fails")
    ELSE "read_fails"

\* res = requests.post(url, json=payload, timeout=8) and what follows it
\* inside the try block
Attempt(t, outcomes) ==
    /\ calls[t].pc = "attempt"
    /\ \E o \in outcomes, b \in Bodies :
           calls' = [calls EXCEPT ![t] =
               [@ EXCEPT !.pc = AfterAttempt(o, calls[t].i),
                         !.outs = Append(@, o),
                         !.res = IF o = "ok" THEN Decode(b) ELSE @]]
    /\ UNCHANGED <<_CB_FAILS, _CB_OPEN_UNTIL, now, failedSince, notCB>>

\* time.sleep(delay); continue
Sleep(t) ==
    /\ calls[t].pc = "sleep"
    /\ now + backoffs[calls[t].i] <= MaxNow
    /\ now' = now + backoffs[calls[t].i]
    /\ calls' = [calls EXCEPT ![t] =
           [@ EXCEPT !.slept = Append(@, backoffs[calls[t].i]),
                     !.pc = IF calls[t].i < Len(backoffs) THEN "attempt" ELSE "read_fails",
                     !.i = IF calls[t].i < Len(backoffs) THEN @ + 1 ELSE @]]
    /\ UNCHANGED <<_CB_FAILS, _CB_OPEN_UNTIL, failedSince, notCB>>

\* _CB_FAILS = 0
ResetFails(t) ==
    /\ calls[t].pc = "reset_fails"
    /\ _CB_FAILS' = 0
    /\ calls' = [calls EXCEPT ![t].pc = "reset_open"]
    /\ UNCHANGED <<_CB_OPEN_UNTIL, now, failedSince, notCB>>

\* _CB_OPEN_UNTIL = 0.0; return {"stance": stance, "score": score}
\* A thread that has read _CB_FAILS and not yet written it back now holds a
\* value read before this success.
ResetOpen(t) ==
    /\ calls[t].pc = "reset_open"
    /\ _CB_OPEN_UNTIL' = 0
    /\ calls' = [u \in Threads |->
           IF u = t THEN Returned(calls[t], calls[t].res, "answered")
           ELSE IF calls[u].pc = "write_fails" THEN [calls[u] EXCEPT !.stale = TRUE]
           ELSE calls[u]]
    /\ failedSince' = 0
    /\ UNCHANGED <<_CB_FAILS, now, notCB>>

\* _CB_FAILS += 1, the read
ReadFails(t) ==
    /\ calls[t].pc = "read_fails"
    /\ calls' = [calls EXCEPT ![t] = [@ EXCEPT !.pc = "write_fails", !.reg = _CB_FAILS]]
    /\ UNCHANGED <<_CB_FAILS, _CB_OPEN_UNTIL, now, failedSince, notCB>>

\* _CB_FAILS += 1, the write
WriteFails(t) ==
    /\ calls[t].pc = "write_fails"
    /\ _CB_FAILS' = calls[t].reg + 1
    /\ calls' = [calls EXCEPT ![t] = [@ EXCEPT !.pc = "test", !.undid = @ \/ calls[t].stale]]
    /\ UNCHANGED <<_CB_OPEN_UNTIL, now, failedSince, notCB>>

\* if _CB_FAILS >= _CB_THRESHOLD, and the return when it does not hold
TestFails(t) ==
    /\ calls[t].pc = "test"
    /\ IF Trips(_CB_FAILS)
       THEN /\ calls' = [calls EXCEPT ![t].pc = "open"]
            /\ UNCHANGED failedSince
       ELSE /\ calls' = [calls EXCEPT ![t] = Returned(@, St("neutral", 0), "failed")]
            /\ failedSince' = failedSince + 1
    /\ UNCHANGED <<_CB_FAILS, _CB_OPEN_UNTIL, now, notCB>>

\* _CB_OPEN_UNTIL = time.time() + _CB_COOLDOWN, and the return
OpenBreaker(t) ==
    /\ calls[t].pc = "open"
    /\ _CB_OPEN_UNTIL' = now + _CB_COOLDOWN
    /\ calls' = [calls EXCEPT ![t] = Returned(@, St("neutral", 0), "failed")]
    /\ failedSince' = failedSince + 1
    /\ UNCHANGED <<_CB_FAILS, now, notCB>>

\* time passes: one cooldown period
Tick ==
    /\ now + _CB_COOLDOWN <= MaxNow
    /\ now' = now + _CB_COOLDOWN
    /\ UNCHANGED <<_CB_FAILS, _CB_OPEN_UNTIL, calls, failedSince, notCB>>

\* the steps of thread t inside call_ml_service
StepsOf(t, max, outcomes) ==
    \/ Begin(t, max)
    \/ Attempt(t, outcomes)
    \/ Sleep(t)
    \/ ResetFails(t)
    \/ ResetOpen(t)
    \/ ReadFails(t)
    \/ WriteFails(t)
    \/ TestFails(t)
    \/ OpenBreaker(t)

InitCB ==
    /\ claim = <<>>
    /\ pool = <<>>
    /\ idx = 0
    /\ evidence = <<>>
    /\ pc = "idle"
    /\ out = NoVerdict
    /\ resolved = <<>>
    /\ cross = NoCross
    /\ bias = NoBias
    /\ final = NoFinal
    /\ exc = <<>>
    /\ env = [tldextract |-> TRUE, stance |-> TRUE, stance_model |-> FALSE]
    /\ fin = "idle"
    /\ fout = <<>>
    /\ CBIdle
    /\ ReqIdle

\* one thread calls call_ml_service again and again
NextCB == StepsOf(1, MaxCallsSeq, HttpOutcomes) \/ Tick

SpecCB == InitCB /\ [][NextCB]_vars

\* the steps of thread t when every attempt is answered at once, by a
\* decoded 200 response or by a status that ends the loop
ConcOutcomes == {"ok", "other"}

StepsConc(t) ==
    \/ Begin(t, MaxCallsConc)
    \/ Attempt(t, ConcOutcomes)
    \/ ResetFails(t)
    \/ ResetOpen(t)
    \/ ReadFails(t)
    \/ WriteFails(t)
    \/ TestFails(t)
    \/ OpenBreaker(t)

\* two threads call it at the same time
NextCBC == (\E t \in Threads : StepsConc(t)) \/ Tick

SpecCBC == InitCB /\ [][NextCBC]_vars

\* the remote service fails or answers until the last cooldown period of
\* the model begins, and answers from then on: it has recovered
RemoteOutcomes == IF now + _CB_COOLDOWN <= MaxNow THEN ConcOutcomes ELSE {"ok"}

\* the count of completed calls starts over, so that calls keep arriving
Again ==
    /\ calls[1].pc = "idle"
    /\ calls[1].n = MaxCallsSeq
    /\ calls' = [calls EXCEPT ![1].n = 0]
    /\ UNCHANGED <<_CB_FAILS, _CB_OPEN_UNTIL, now, failedSince, notCB>>

\* the steps of a call whose attempts end without a retry: a decoded 200
\* response or a status that breaks out of the loop
StepsLive ==
    \/ Begin(1, MaxCallsSeq)
    \/ Again
    \/ Attempt(1, RemoteOutcomes)
    \/ ResetFails(1)
    \/ ResetOpen(1)
    \/ ReadFails(1)
    \/ WriteFails(1)
    \/ TestFails(1)
    \/ OpenBreaker(1)

\* a cooldown period passes between two calls: a call without a retry ends
\* within its timeout=8 seconds, less than _CB_COOLDOWN
TickBetween == calls[1].pc = "idle" /\ Tick

NextCBL == StepsLive \/ TickBetween

\* calls keep arriving and every call runs to its return: the caller is a
\* request handler that calls call_ml_service for each evidence item, and
\* the function has no blocking step besides the bounded post; the clock
\* advances however often the thread is called
SpecCBL ==
    /\ InitCB
    /\ [][NextCBL]_vars
    /\ WF_vars(StepsLive)
    /\ WF_vars(TickBetween)

---------------------------------------------------------------------------
(* The request pipeline *)

\* the optional modules: tldextract (credibility_score.py), the stance module
\* (stance.py, which needs requests) and the transformers pipeline (app.py)
EnvOf(t, s, m) == [tldextract |-> t, stance |-> s, stance_model |-> m]
DefaultEnv == EnvOf(TRUE, TRUE, FALSE)

Idle == "idle"
\* no function is being called on its own
ProbeIdle == fin = Idle /\ fout = <<>>

\* no request is running
PipeIdle ==
    /\ claim = <<>>
    /\ pool = <<>>
    /\ idx = 0
    /\ evidence = <<>>
    /\ pc = Idle
    /\ out = NoVerdict
    /\ resolved = <<>>
    /\ cross = NoCross
    /\ bias = NoBias
    /\ final = NoFinal
    /\ exc = <<>>

InitPipe(cs, envs) ==
    /\ claim \in cs
    /\ pool = <<>>
    /\ idx = 0
    /\ evidence = <<>>
    /\ pc = "cross"
    /\ out = NoVerdict
    /\ resolved = <<>>
    /\ cross = NoCross
    /\ bias = NoBias
    /\ final = NoFinal
    /\ exc = <<>>
    /\ env \in envs
    /\ ProbeIdle
    /\ CBIdle
    /\ ReqIdle

InitWith(cs) == InitPipe(cs, {DefaultEnv})

\* evidence_articles = search_evidence_for_claim(primary_claim, max_results=15)
RetrieveFrom(arts, n) ==
    /\ pc = "retrieve"
    /\ \E raw \in SeqsUpTo(arts, n) :
           pool' = search_evidence_for_claim(claim, raw)
    /\ pc' = "scoring"
    /\ UNCHANGED <<claim, idx, evidence, out, resolved, verVars, notPipe>>

\* an article with empty text is passed over
SkipEmpty ==
    /\ pc = "scoring"
    /\ idx < Len(pool)
    /\ EvText(pool[idx + 1]) = <<>>
    /\ idx' = idx + 1
    /\ UNCHANGED <<claim, pool, evidence, pc, out, resolved, verVars, notPipe>>

\* an article with text is scored and appended to the evidence
ScoreWith(answers) ==
    /\ pc = "scoring"
    /\ idx < Len(pool)
    /\ EvText(pool[idx + 1]) # <<>>
    /\ \E ans \in answers :
           LET r == ResolveStance(ans, claim, EvText(pool[idx + 1]))
           IN  /\ evidence' = Append(evidence, ScoreRecord(claim, pool[idx + 1], r.st))
               /\ resolved' = Append(resolved, [how |-> r.how, tiers |-> r.tiers])
    /\ idx' = idx + 1
    /\ UNCHANGED <<claim, pool, pc, out, verVars, notPipe>>

\* after the loop: totals, verdict, confidence, explanation and citations
Aggregate ==
    /\ pc = "scoring"
    /\ idx = Len(pool)
    /\ out' = ClaimVerdict(claim, evidence)
    /\ pc' = "done"
    /\ UNCHANGED <<claim, pool, idx, evidence, resolved, verVars, notPipe>>

\* Step 2: articles = search_web_multi(query, max_results=10) and the loop
\* over them
CrossVerifyWith(items, n) ==
    /\ pc = "cross"
    /\ \E arts \in SeqsUpTo(items, n) :
           IF \E i \in 1..Len(arts) : SourceRaises(arts[i])
           THEN /\ exc' = <<SourceError(FirstRaising(arts))>>
                /\ pc' = "raised"
                /\ cross' = cross
           ELSE /\ cross' = CrossLoop(claim, arts,
                                      [NoCross EXCEPT !.articles_found = Len(arts)])
                /\ pc' = "retrieve"
                /\ exc' = exc
    /\ UNCHANGED <<claim, pool, idx, evidence, out, resolved, bias, final, notPipe>>

\* Steps 3 and 4 and the rest of verify_news: check_bias, the verification
\* counts and calculate_final_score, whose result the response reports as
\* "final"
Finalize ==
    /\ pc = "done"
    /\ bias' = check_bias(claim)
    /\ final' = calculate_final_score(
                    [confirmed |-> cross.confirmed_count, disputed |-> cross.disputed_count],
                    check_bias(claim))
    /\ pc' = "responded"
    /\ UNCHANGED <<claim, pool, idx, evidence, out, resolved, cross, exc, notPipe>>

\* the cross-verification search finds nothing
CrossVerify == CrossVerifyWith({}, 0)

Init == InitWith(Claims)

Retrieve == RetrieveFrom(Articles, MaxEvidence)

\* every article's remote tier decodes a 200 response
SpecAnswers == AnsweredWith(StanceOutcomes)

ScoreArticle == ScoreWith(SpecAnswers)

Next == CrossVerify \/ Retrieve \/ SkipEmpty \/ ScoreArticle \/ Aggregate \/ Finalize

Spec == Init /\ [][Next]_vars

---------------------------------------------------------------------------
(* The stance tiers: the same pipeline, with short result lists, under     *)
(* every outcome of the imports and every answer of the tiers.             *)

TClaims == {<<"rover", "lands">>, <<"Nasa", "rover", "Mars", "12", "rate">>}

TArticles ==
    { Art(Url(<<"www", "reuters", "com">>, 1), <<"Nasa", "rover">>, <<"Mars", "12">>,
          "Reuters", IsoDate(0)),
      Art(Url(<<"edition", "cnn", "com">>, 4), <<"rover", "lands">>, <<>>, "CNN", NoDate),
      Art(Url(<<"www", "bbc", "com">>, 2), <<"Isro", "rate">>, <<>>, "BBC", IsoDate(180)),
      Art(Url(<<"random", "blogspot", "com">>, 5), <<>>, <<>>, "Blog", BadDate) }

\* decoded 200 responses: the service's labels, and a body with another
\* label and scores outside [0, 1]
TRemotes ==
    {Remote("answered", st) :
         st \in {St("entailment", 9), St("contradiction", 7), St("supports", 20),
                 St("neutral", -5)}}
    \cup {RemoteFailed, RemoteOpen}

TAnswers == Answers(TRemotes, {St("neutral", 0)}, {<<>>, <<St("entailment", 9)>>})

TEnvs == {EnvOf(TRUE, TRUE, FALSE), EnvOf(TRUE, FALSE, FALSE), EnvOf(TRUE, FALSE, TRUE)}

InitT == InitPipe(TClaims, TEnvs)

RetrieveT == RetrieveFrom(TArticles, MaxW)

ScoreArticleT == ScoreWith(TAnswers)

NextT == CrossVerify \/ RetrieveT \/ SkipEmpty \/ ScoreArticleT \/ Aggregate \/ Finalize

SpecT == InitT /\ [][NextT]_vars

---------------------------------------------------------------------------
(* Failures of stance resolution: the same pipeline, with result lists of   *)
(* more than one article, when the remote call fails or is short-circuited  *)
(* and when the transformers pipeline raises.                               *)

DClaims == {<<"Nasa", "rover", "lands">>}

DArticles ==
    { Art(Url(<<"www", "reuters", "com">>, 1), <<"Nasa", "rover">>, <<"lands">>,
          "Reuters", IsoDate(0)),
      Art(Url(<<"www", "bbc", "com">>, 2), <<"Nasa", "rover">>, <<>>, "BBC", IsoDate(0)),
      Art(Url(<<"random", "blogspot", "com">>, 5), <<>>, <<>>, "Blog", BadDate) }

DRemotes ==
    {Remote("answered", St("entailment", 10)), Remote("answered", St("contradiction", 10)),
     RemoteFailed, RemoteOpen}

DAnswers == Answers(DRemotes, {St("neutral", 0)}, {<<>>, <<St("entailment", 9)>>})

\* stance.py imported, or not imported with the transformers pipeline loaded
DEnvs == {EnvOf(TRUE, TRUE, FALSE), EnvOf(TRUE, FALSE, TRUE)}

InitD == InitPipe(DClaims, DEnvs)

RetrieveD == RetrieveFrom(DArticles, MaxItems)

ScoreArticleD == ScoreWith(DAnswers)

NextD == CrossVerify \/ RetrieveD \/ SkipEmpty \/ ScoreArticleD \/ Aggregate \/ Finalize

SpecD == InitD /\ [][NextD]_vars

---------------------------------------------------------------------------
(* verify_news as a whole: the same pipeline, with cross-verification      *)
(* results, sensational request texts and short evidence lists.            *)

\* a request text of ten different words
TenWords == <<"Nasa", "Mars", "Isro", "UN", "rover", "lands", "rate", "12", "13", "14">>

VClaims ==
    { <<"Nasa", "rover", "lands">>,
      <<"rover", "lands">>,
      <<"BREAKING", "shocking", "rover", "lands">>,
      TenWords }

VCrossItems ==
    { CrossItem(Url(<<"www", "reuters", "com">>, 1), <<"Nasa", "rover">>, 30),
      CrossItem(Url(<<"edition", "cnn", "com">>, 2), <<"Isro", "rate">>, 75),
      CrossItem(Url(<<"random", "blogspot", "com">>, 3), <<"Isro", "rate">>, 10),
      CrossArt(Url(<<"www", "bbc", "com">>, 4), <<"BREAKING", "shocking", "rover">>,
               <<"BREAKING", "UN">>, {}, 30),
      CrossArt(Url(<<"unknown", "xyz">>, 6), <<"BREAKING">>, <<"Mars", "12", "13">>, {}, 10),
      CrossArt(Url(<<"edition", "cnn", "com">>, 7), <<"Nasa">>, <<>>, {"description"}, 75),
      CrossArt(Url(<<"apnews", "com">>, 8), <<>>, <<"rover">>, {"title"}, 0) }

VArticles ==
    { Art(Url(<<"www", "reuters", "com">>, 1), <<"Nasa", "rover">>, <<"lands">>,
          "Reuters", IsoDate(0)),
      Art(Url(<<"random", "blogspot", "com">>, 5), <<>>, <<>>, "Blog", BadDate) }

VOutcomes == {St("entailment", 10), St("contradiction", 10), St("neutral", 0)}

InitV == InitWith(VClaims)

CrossVerifyV == CrossVerifyWith(VCrossItems, MaxCross)

RetrieveV == RetrieveFrom(VArticles, MaxW)

\* every article's remote tier decodes a 200 response
VAnswers == AnsweredWith(VOutcomes)

ScoreArticleV == ScoreWith(VAnswers)

NextV == CrossVerifyV \/ RetrieveV \/ SkipEmpty \/ ScoreArticleV \/ Aggregate \/ Finalize

SpecV == InitV /\ [][NextV]_vars

---------------------------------------------------------------------------
(* Two requests served one after the other by the same process: what the   *)
(* first one ended with is kept, so that the two can be compared.           *)

PClaims == {<<"rover", "lands">>, <<"shocking", "rover", "lands">>}

PCrossItems ==
    { CrossItem(Url(<<"www", "reuters", "com">>, 1), <<"Nasa", "rover">>, 75),
      CrossItem(Url(<<"random", "blogspot", "com">>, 3), <<"Isro", "rate">>, 10) }

PArticles ==
    { Art(Url(<<"www", "reuters", "com">>, 1), <<"Nasa", "rover">>, <<"lands">>,
          "Reuters", IsoDate(0)),
      Art(Url(<<"edition", "cnn", "com">>, 2), <<"rover">>, <<"lands">>,
          "CNN", IsoDate(0)),
      Art(Url(<<"random", "blogspot", "com">>, 5), <<>>, <<>>, "Blog", BadDate) }

POutcomes == {St("entailment", 10), St("contradiction", 10)}

PAnswers == AnsweredWith(POutcomes)

InitPair == InitWith(PClaims)

CrossVerifyP == CrossVerifyWith(PCrossItems, MaxPair)

RetrieveP == RetrieveFrom(PArticles, MaxPair)

ScoreArticleP == ScoreWith(PAnswers)

\* the first request has been answered and the second one arrives:
\* detailed_scan_analysis starts again with fresh locals
NextRequest ==
    /\ pc = "responded"
    /\ prev = <<>>
    /\ prev' = <<[claim |-> claim, evidence |-> evidence, out |-> out,
                  cross |-> cross, bias |-> bias, final |-> final]>>
    /\ claim' \in PClaims
    /\ pool' = <<>>
    /\ idx' = 0
    /\ evidence' = <<>>
    /\ pc' = "cross"
    /\ out' = NoVerdict
    /\ resolved' = <<>>
    /\ cross' = NoCross
    /\ bias' = NoBias
    /\ final' = NoFinal
    /\ UNCHANGED <<exc, env, probeVars, cbVars, http>>

NextPair ==
    CrossVerifyP \/ RetrieveP \/ SkipEmpty \/ ScoreArticleP \/ Aggregate \/ Finalize
        \/ NextRequest

SpecPair == InitPair /\ [][NextPair]_vars

---------------------------------------------------------------------------
(* The HTTP routes (server.py): /verify, /verify-image and /verify-url, each *)
(* a try block around the pipeline with its except clauses.                 *)

Routes == {"verify", "verify-image", "verify-url"}

\* a request on route r whose try block is running the pipeline
Serving(r) == [route |-> r, stage |-> "pipeline", raised |-> 0, status |-> 0, detail |-> ""]

\* raise HTTPException(status_code=st, detail=d) inside the try block of a
\* route with "except HTTPException: raise": the response keeps st and d
Deliberate(r, st, d) == [route |-> r, stage |-> "sent", raised |-> st, status |-> st, detail |-> d]

\* the mutant: the exception is swallowed and answered as a normal response
Unexpected_Swallowed(r, msg) ==
    [route |-> r, stage |-> "sent", raised |-> 0, status |-> 200, detail |-> msg]

\* except Exception as e: raise HTTPException(status_code=500, detail=str(e))
Unexpected(r, msg) ==
    [route |-> r, stage |-> "sent", raised |-> 0, status |-> 500, detail |-> msg]

\* return result
Returned200(r) == [route |-> r, stage |-> "sent", raised |-> 0, status |-> 200, detail |-> ""]

\* the server is up and no request has arrived
InitHttp ==
    /\ PipeIdle
    /\ env = DefaultEnv
    /\ ProbeIdle
    /\ CBIdle
    /\ ReqIdle

\* the pipeline starts on text: verify_news(text, source_url)
StartPipeline(text) ==
    /\ claim' = text
    /\ pc' = "cross"
    /\ UNCHANGED <<pool, idx, evidence, out, resolved, cross, bias, final, exc>>

\* POST /verify: the text of the request, which may be empty, goes to
\* verify_article unchecked
ReceiveVerify(texts) ==
    /\ http = NoHttp
    /\ \E text \in texts \cup {<<>>} : StartPipeline(text)
    /\ http' = Serving("verify")
    /\ UNCHANGED <<prev, env, probeVars, cbVars>>

\* POST /verify-image: the OCR modules are missing (a deliberate 500), the
\* upload is not an image (Image.open raises), the image holds no text (a
\* deliberate 400), or the stripped text goes to verify_news
ReceiveImage(texts) ==
    /\ http = NoHttp
    /\ \/ /\ http' = Deliberate("verify-image", 500,
                     "OCR dependencies missing. Please install pillow and pytesseract.")
          /\ UNCHANGED pipeVars
       \/ /\ http' = Unexpected("verify-image", "cannot identify image file")
          /\ UNCHANGED pipeVars
       \/ /\ http' = Deliberate("verify-image", 400, "No readable text found in image.")
          /\ UNCHANGED pipeVars
       \/ /\ \E text \in texts : StartPipeline(text)
          /\ http' = Serving("verify-image")
    /\ UNCHANGED <<prev, env, probeVars, cbVars>>

\* POST /verify-url: the page cannot be fetched (_extract_text_from_url
\* raises a deliberate 502), it holds no text (a deliberate 400), or its
\* text goes to verify_news
ReceiveUrl(texts) ==
    /\ http = NoHttp
    /\ \/ /\ http' = Deliberate("verify-url", 502, "Failed to fetch URL")
          /\ UNCHANGED pipeVars
       \/ /\ http' = Deliberate("verify-url", 400, "No readable text extracted from the URL.")
          /\ UNCHANGED pipeVars
       \/ /\ \E text \in texts : StartPipeline(text)
          /\ http' = Serving("verify-url")
    /\ UNCHANGED <<prev, env, probeVars, cbVars>>

\* the pipeline returned or raised inside the try block
Respond ==
    /\ http.stage = "pipeline"
    /\ \/ /\ pc = "responded"
          /\ http' = Returned200(http.route)
       \/ /\ pc = "raised"
          /\ http' = Unexpected(http.route, exc[1])
    /\ UNCHANGED <<pipeVars, prev, env, probeVars, cbVars>>

HTexts == {<<"Nasa", "rover", "lands">>, <<"shocking", "rover">>}

HCrossItems ==
    { CrossItem(Url(<<"www", "reuters", "com">>, 1), <<"Nasa", "rover">>, 75),
      CrossArt(Url(<<"edition", "cnn", "com">>, 7), <<"Nasa">>, <<>>, {"description"}, 75),
      CrossArt(Url(<<"apnews", "com">>, 8), <<>>, <<"rover">>, {"title"}, 0) }

HArticles ==
    { Art(Url(<<"www", "reuters", "com">>, 1), <<"Nasa", "rover">>, <<"lands">>,
          "Reuters", IsoDate(0)),
      Art(Url(<<"random", "blogspot", "com">>, 5), <<>>, <<>>, "Blog", BadDate) }

HOutcomes == {St("entailment", 10), St("neutral", 5)}

HAnswers == AnsweredWith(HOutcomes)

Verify == ReceiveVerify(HTexts)

VerifyImage == ReceiveImage(HTexts)

VerifyUrl == ReceiveUrl(HTexts)

CrossVerifyH == CrossVerifyWith(HCrossItems, MaxCross)

RetrieveH == RetrieveFrom(HArticles, MaxW)

ScoreArticleH == ScoreWith(HAnswers)

NextHttp ==
    Verify \/ VerifyImage \/ VerifyUrl \/ CrossVerifyH \/ RetrieveH \/ SkipEmpty
        \/ ScoreArticleH \/ Aggregate \/ Finalize \/ Respond

SpecHttp == InitHttp /\ [][NextHttp]_vars

---------------------------------------------------------------------------
(* get_source_rank called on its own, on URL strings of every shape *)

RankHosts ==
    { <<"www", "reuters", "com">>, <<"bbc", "com">>, <<"apnews", "com">>,
      <<"edition", "cnn", "com">>, <<"foxnews", "com">>,
      <<"random", "blogspot", "com">>, <<"unknown", "xyz">>,
      <<"reuters", "com", "evil", "xyz">>, <<"news", "bbc", "co", "uk">>,
      <<"reuters">>, <<"localhost">>, <<"com">>, <<"[bad", "com">> }

RankUrls ==
    {NoneUrl, EmptyUrl} \cup
    {UrlOf(sc, h, pt, 7) : sc \in {"https", ""}, h \in RankHosts, pt \in {0, 8080}}

InitRank ==
    /\ PipeIdle
    /\ env \in {EnvOf(t, TRUE, FALSE) : t \in BOOLEAN}
    /\ fin \in RankUrls
    /\ fout = <<>>
    /\ CBIdle
    /\ ReqIdle

CallRank ==
    /\ fin \in RankUrls
    /\ fout = <<>>
    /\ fout' = <<get_source_rank(fin)>>
    /\ UNCHANGED <<pipeVars, env, cbVars, reqVars, fin>>

NextRank == CallRank

SpecRank == InitRank /\ [][NextRank]_vars

---------------------------------------------------------------------------
(* extract_claims called on its own (claim_extraction.py) *)

\* A text is a sequence of chunks separated by blanks.  For each chunk: does
\* it end with ".", "!" or "?" (the split point of the regular expression),
\* and does the relevance pattern find something in it.
ChunkTab ==
    "rained."   :> [end |-> TRUE,  hit |-> FALSE] @@
    "grew 5%."  :> [end |-> TRUE,  hit |-> TRUE] @@
    "meanwhile" :> [end |-> FALSE, hit |-> FALSE] @@
    "CLAIMED"   :> [end |-> FALSE, hit |-> TRUE]

\* "" and None have no chunk; a text of blanks only has none either
TextOf(ch, blank) == [chunks |-> ch, blank |-> blank]
EmptyText == TextOf(<<>>, FALSE)
BlankText == TextOf(<<>>, TRUE)

RECURSIVE SplitChunks(_, _)
\* the sentences of a non-empty chunk sequence: a sentence ends with the
\* chunk that ends with punctuation, the last one with the text
SplitChunks(ch, cur) ==
    IF ch = <<>> THEN (IF cur = <<>> THEN <<>> ELSE <<cur>>)
    ELSE IF ChunkTab[Head(ch)].end
    THEN <<Append(cur, Head(ch))>> \o SplitChunks(Tail(ch), <<>>)
    ELSE SplitChunks(Tail(ch), Append(cur, Head(ch)))

\* re.split(r'(?<=[.!?])\s+', text.strip()): the stripped text of blanks is
\* "", which splits into the one sentence ""
Sentences(text) ==
    IF text.chunks = <<>> THEN << <<>> >> ELSE SplitChunks(text.chunks, <<>>)

\* re.search(pattern, s, re.I)
Relevant(sent) == \E i \in 1..Len(sent) : ChunkTab[sent[i]].hit

\* the mutant: every sentence is scanned, not only the first 8
extract_claims_ScanAll(text, max_claims) ==
    IF text = EmptyText THEN <<>>
    ELSE LET sents == Sentences(text)
             found == SelectSeq(sents, Relevant)
             candidates == IF found = <<>> THEN SubSeq(sents, 1, 1) ELSE found
         IN  SubSeq(candidates, 1, Min(max_claims, Len(candidates)))

extract_claims(text, max_claims) ==
    IF text = EmptyText THEN <<>>
    ELSE LET sents == Sentences(text)
             found == SelectSeq(SubSeq(sents, 1, Min(8, Len(sents))), Relevant)
             candidates == IF found = <<>> THEN SubSeq(sents, 1, 1) ELSE found
         IN  SubSeq(candidates, 1, Min(max_claims, Len(candidates)))

\* the chunks the long texts are made of, and the short texts of all chunks
LongChunks == {"rained.", "grew 5%."}
ClaimTexts ==
    {EmptyText, BlankText}
    \cup {TextOf(ch, FALSE) : ch \in SeqsUpTo(LongChunks, MaxChunks) \ {<<>>}}
    \cup {TextOf(ch, FALSE) : ch \in SeqsUpTo(DOMAIN ChunkTab, 4) \ {<<>>}}

\* max_claims: the default 3 and smaller limits
ClaimLimits == {1, 2, 3}

ClaimArgs == {[text |-> t, max_claims |-> k] : t \in ClaimTexts, k \in ClaimLimits}

InitClaims ==
    /\ PipeIdle
    /\ env = DefaultEnv
    /\ fin \in ClaimArgs
    /\ fout = <<>>
    /\ CBIdle
    /\ ReqIdle

CallClaims ==
    /\ fin \in ClaimArgs
    /\ fout = <<>>
    /\ fout' = <<extract_claims(fin.text, fin.max_claims)>>
    /\ UNCHANGED <<pipeVars, env, cbVars, reqVars, fin>>

NextClaims == CallClaims

SpecClaims == InitClaims /\ [][NextClaims]_vars

---------------------------------------------------------------------------
(* calculate_final_score called on its own (predict_fake.py), on dicts of   *)
(* integers with and without their keys                                     *)

Counts == (0 - MaxCount)..MaxCount

\* the dicts over a key set: every subset of the keys, every integer value
DictsOver(keys) == UNION {[ks -> Counts] : ks \in SUBSET keys}

FinalArgs ==
    {[verification |-> v, bias |-> b] :
        v \in DictsOver({"confirmed", "disputed"}), b \in DictsOver({"sensational_count"})}

InitFinal ==
    /\ PipeIdle
    /\ env = DefaultEnv
    /\ fin \in FinalArgs
    /\ fout = <<>>
    /\ CBIdle
    /\ ReqIdle

CallFinal ==
    /\ fin \in FinalArgs
    /\ fout = <<>>
    /\ fout' = <<calculate_final_score(fin.verification, fin.bias)>>
    /\ UNCHANGED <<pipeVars, env, cbVars, reqVars, fin>>

NextFinal == CallFinal

SpecFinal == InitFinal /\ [][NextFinal]_vars

----------------------------------------------------------------------------
(* search_web_multi (fetch_sources.py), called on its own.  A provider is   *)
(* given as what happens to its request: it has no API key, its request     *)
(* fails, or it is answered with a list of articles.  A normalized article  *)
(* is [url, via]: url "" stands for a missing, None or empty url and via    *)
(* names the provider that returned it.  The lru_cache around the function  *)
(* replays the result of an earlier call with the same arguments and is not *)
(* modelled.                                                                *)

HitUrls == {"", "https://a.example/1", "https://b.example/2"}

Hit(u, via) == [url |-> u, via |-> via]

RECURSIVE ListsOver(_, _)
ListsOver(S, n) ==
    IF n = 0 THEN {<<>>}
    ELSE LET shorter == ListsOver(S, n - 1)
         IN  shorter \cup {Append(l, x) : l \in {m \in shorter : Len(m) = n - 1}, x \in S}

\* what happens to the request of one provider
Provider(via) ==
    {[key |-> FALSE, ok |-> FALSE, articles |-> <<>>],
     [key |-> TRUE, ok |-> FALSE, articles |-> <<>>]}
    \cup {[key |-> TRUE, ok |-> TRUE, articles |-> l] :
              l \in ListsOver({Hit(u, via) : u \in HitUrls}, MaxHits)}

NewsApi == Provider("newsapi")
Bing == Provider("bing")

\* search_web and search_web_bing: [] without a key and on any exception,
\* else every article of the response, normalized
search_web(p) == IF p.key /\ p.ok THEN p.articles ELSE <<>>
search_web_bing(p) == IF p.key /\ p.ok THEN p.articles ELSE <<>>

\* for it in items: an item with a url not seen before is appended, and
\* the loop breaks once len(results) >= max_results, tested after the append
RECURSIVE Scan(_, _, _, _, _)
Scan(items, i, results, seen, max_results) ==
    IF i > Len(items) THEN [results |-> results, seen |-> seen]
    ELSE LET url == items[i].url
             fresh == url # "" /\ url \notin seen
             r == IF fresh THEN Append(results, items[i]) ELSE results
             sn == IF fresh THEN seen \cup {url} ELSE seen
         IN  IF Len(r) >= max_results THEN [results |-> r, seen |-> sn]
             ELSE Scan(items, i + 1, r, sn, max_results)

\* for provider in (search_web, search_web_bing): the result list and the
\* providers that were queried
search_web_multi(news, bing, max_results) ==
    LET first == Scan(search_web(news), 1, <<>>, {}, max_results)
    IN  IF Len(first.results) >= max_results
        THEN [results |-> first.results, queried |-> <<"newsapi">>]
        ELSE [results |-> Scan(search_web_bing(bing), 1, first.results,
                                first.seen, max_results).results,
              queried |-> <<"newsapi", "bing">>]

MultiArgs == [news : NewsApi, bing : Bing, max_results : 0..MaxResults]

InitMulti ==
    /\ PipeIdle
    /\ env = DefaultEnv
    /\ fin \in MultiArgs
    /\ fout = <<>>
    /\ CBIdle
    /\ ReqIdle

CallMulti ==
    /\ fin \in MultiArgs
    /\ fout = <<>>
    /\ fout' = <<search_web_multi(fin.news, fin.bing, fin.max_results)>>
    /\ UNCHANGED <<pipeVars, env, cbVars, reqVars, fin>>

NextMulti == CallMulti

SpecMulti == InitMulti /\ [][NextMulti]_vars

---------------------------------------------------------------------------
(* The weight functions on a wide range of claims, texts, URLs and dates:  *)
(* the same pipeline, with short result lists.                             *)

WClaims ==
    { FullText,
      <<"rover", "lands">>,
      <<"Isro", "12", "50">>,
      <<"UN", "rate", "12%a">>,
      <<"Nasa", "1000">>,
      <<"rate", "12%">> }

WTexts ==
    { FullText,
      <<"Nasa", "lands", "13">>,
      <<"rover", "lands">>,
      <<"Isro", "50", "14">>,
      <<"rover", "14">>,
      <<"rate", "15%a">>,
      <<"rate", "16%a">>,
      <<"Mars", "1040">>,
      <<"12.5", "rate">>,
      <<>> }

WDates ==
    {NoDate, BadDate} \cup
    {IsoDate(a) : a \in {-30, 0, 1, 11, 30, 90, 179, 180, 181, 360, 8999, 9000, 10950}}

WUrls ==
    { Url(<<"www", "reuters", "com">>, 1),
      Url(<<"edition", "cnn", "com">>, 2),
      Url(<<"random", "blogspot", "com">>, 3),
      Url(<<"localhost">>, 4) }

WArticles ==
    {Art(Url(<<"www", "reuters", "com">>, 1), <<>>, t, "Reuters", IsoDate(0)) : t \in WTexts}
    \cup {Art(Url(<<"www", "bbc", "com">>, 5), FullText, <<>>, "BBC", d) : d \in WDates}
    \cup {Art(u, FullText, <<>>, "Src", NoDate) : u \in WUrls}
    \cup {Art(Url(<<"random", "blogspot", "com">>, 6), t, <<>>, "Blog", IsoDate(360)) :
              t \in {<<"rover", "14">>, <<"Nasa", "lands", "13">>}}

WOutcomes == {St("entailment", 10), St("neutral", 0)}

InitW == InitWith(WClaims)

RetrieveW == RetrieveFrom(WArticles, MaxW)

\* every article's remote tier decodes a 200 response
WAnswers == AnsweredWith(WOutcomes)

ScoreArticleW == ScoreWith(WAnswers)

NextW == CrossVerify \/ RetrieveW \/ SkipEmpty \/ ScoreArticleW \/ Aggregate \/ Finalize

SpecW == InitW /\ [][NextW]_vars

---------------------------------------------------------------------------
(* Properties.  The totals a property speaks of are computed here from the *)
(* evidence records, separately from the accumulation loop of the code.    *)

Contribution(e) == e.stance_score * e.weights.combined

RECURSIVE SumContrib(_)
SumContrib(ev) ==
    IF ev = <<>> THEN 0 ELSE Contribution(Head(ev)) + SumContrib(Tail(ev))

SupportOf(ev) == SumContrib(SelectSeq(ev, LAMBDA e : e.stance = "entailment"))
RefuteOf(ev) == SumContrib(SelectSeq(ev, LAMBDA e : e.stance = "contradiction"))
NeutralOf(ev) ==
    SumContrib(SelectSeq(ev, LAMBDA e : e.stance \notin {"entailment", "contradiction"}))

MarginRule(s, r) == r - s >= 60000 \/ s - r >= 60000
PartlyRule(s, r) == s > 30000 /\ r > 30000

\* C1: the verdict of a finished request is the one of the first matching
\* rule, in the order False (refute - support >= 0.6), True (support - refute
\* >= 0.6), Partly True (both above 0.3), Unverified (support + refute < 0.2),
\* Misleading, over the sums of stance_score x combined weight per label.
C1_VerdictByFirstRule ==
    pc = "done" =>
        LET s == SupportOf(evidence)
            r == RefuteOf(evidence)
        IN  /\ r - s >= 60000 => out.verdict = "False"
            /\ r - s < 60000 /\ s - r >= 60000 => out.verdict = "True"
            /\ ~MarginRule(s, r) /\ PartlyRule(s, r) => out.verdict = "Partly True"
            /\ ~MarginRule(s, r) /\ ~PartlyRule(s, r) /\ s + r < 20000
                   => out.verdict = "Unverified"
            /\ ~MarginRule(s, r) /\ ~PartlyRule(s, r) /\ s + r >= 20000
                   => out.verdict = "Misleading"

\* a finished request whose refute total is exactly 0.6 above the support total
C1_Witness ==
    /\ pc = "done"
    /\ Len(evidence) >= 2
    /\ RefuteOf(evidence) - SupportOf(evidence) = 60000
    /\ out.verdict = "False"

\* C2: the confidence of a finished request is an integer in 0..100, equal to
\* clamp(round((support + refute + neutral) * 50), 0, 100) over the unrounded
\* totals, and it is 100 whenever the three totals sum to 2.0 or more.
C2_Confidence ==
    pc = "done" =>
        LET total == SupportOf(evidence) + RefuteOf(evidence) + NeutralOf(evidence)
            rounded == PyRound(total, 2000)
        IN  /\ out.confidence \in 0..100
            /\ out.confidence =
                   (IF rounded < 0 THEN 0 ELSE IF rounded > 100 THEN 100 ELSE rounded)
            /\ total >= 200000 => out.confidence = 100

\* a finished request whose totals sum to more than 2.0
C2_Witness ==
    /\ pc = "done"
    /\ SupportOf(evidence) + RefuteOf(evidence) + NeutralOf(evidence) > 200000
    /\ out.confidence = 100

\* C3: a request whose evidence list is empty still finishes, with verdict
\* Unverified, confidence 0, all three totals 0, no citation and
\* evidence_count 0.
C3_EmptyEvidence ==
    pc = "done" /\ evidence = <<>> =>
        /\ out.verdict = "Unverified"
        /\ out.confidence = 0
        /\ out.stance_totals = [support |-> 0, refute |-> 0, neutral |-> 0]
        /\ out.citations = <<>>
        /\ out.sent3 = "No decisive sources found."
        /\ out.evidence_count = 0

\* a finished request whose retrieved snippets all had empty text
C3_Witness ==
    /\ pc = "done"
    /\ pool # <<>>
    /\ evidence = <<>>

\* C4 as stated: no reachable totals satisfy a margin rule and the Partly True
\* condition together.
C4_MarginExcludesPartly ==
    ~(/\ MarginRule(SupportOf(evidence), RefuteOf(evidence))
      /\ PartlyRule(SupportOf(evidence), RefuteOf(evidence)))

\* C4 amended: totals can satisfy a margin rule and the Partly True condition
\* together (support 1.0, refute 0.4); the verdict is then the one of the
\* margin rule, False or True, because the margin rules are tested first.
C4_MarginWinsOverPartly ==
    pc = "done" =>
        LET s == SupportOf(evidence)
            r == RefuteOf(evidence)
        IN  MarginRule(s, r) /\ PartlyRule(s, r) =>
                /\ out.verdict = (IF r - s >= 60000 THEN "False" ELSE "True")
                /\ out.verdict # "Partly True"

\* a finished request whose totals satisfy a margin rule and the Partly True
\* condition together
C4_Witness ==
    /\ pc = "done"
    /\ MarginRule(SupportOf(evidence), RefuteOf(evidence))
    /\ PartlyRule(SupportOf(evidence), RefuteOf(evidence))

\* the last evidence record is an entailment with score 1.0 and weight 1.0
LastIsStrongSupport ==
    /\ evidence # <<>>
    /\ evidence[Len(evidence)].stance = "entailment"
    /\ evidence[Len(evidence)].stance_score = 10
    /\ evidence[Len(evidence)].weights.combined = 10000

\* C5: appending an entailment item with score 1.0 and combined weight 1.0
\* raises support by exactly 1.0, leaves refute and neutral as they were, and
\* turns neither a False verdict into True nor a True verdict into False.
C5_StrongSupportMonotone ==
    LastIsStrongSupport =>
        LET before == StanceTotals(SubSeq(evidence, 1, Len(evidence) - 1), ZeroTotals)
            after == StanceTotals(evidence, ZeroTotals)
            v0 == VerdictRule(before.support, before.refute)
            v1 == VerdictRule(after.support, after.refute)
        IN  /\ after.support = before.support + 100000
            /\ after.refute = before.refute
            /\ after.neutral = before.neutral
            /\ ~(v0 = "False" /\ v1 = "True")
            /\ ~(v0 = "True" /\ v1 = "False")
            /\ pc = "done" => out.verdict = v1

\* a finished request whose verdict was False before the strong item came
C5_Witness ==
    /\ pc = "done"
    /\ LastIsStrongSupport
    /\ Len(evidence) >= 2
    /\ LET before == StanceTotals(SubSeq(evidence, 1, Len(evidence) - 1), ZeroTotals)
       IN  VerdictRule(before.support, before.refute) = "False"

---------------------------------------------------------------------------
(* Properties of the weight factors, over the evidence records of SpecW *)

Records == {evidence[i] : i \in 1..Len(evidence)}

\* C6: the combined weight of every evidence record is the product of the
\* four factors trust (0.4, 0.7 or 1.0), recency, entity overlap and numeric
\* consistency, rounded to 4 decimals, and lies in [0.04, 1.0].
C6_CombinedWeight ==
    \A e \in Records :
        LET t == _snippet_weight_by_trust(e.url)
            d == _date_weight(e.publishedAt)
            n == _entity_weight(claim, EvText(e))
            m == _number_weight(claim, EvText(e))
        IN  /\ t \in {4, 7, 10}
            /\ e.weights.trust = 100 * t
            /\ e.weights.date = PyRound(d, 10)
            /\ e.weights.entity = 10 * n
            /\ e.weights.number = 10 * m
            /\ e.weights.combined = PyRound(t * d * n * m, 100000)
            /\ e.weights.combined >= 400
            /\ e.weights.combined <= 10000

\* a record whose four factors are all below 1.0
C6_Witness ==
    \E e \in Records :
        /\ e.weights.trust = 400
        /\ e.weights.date = 500
        /\ e.weights.entity = 500
        /\ e.weights.number = 600
        /\ e.weights.combined = 600

\* number of the claim's capitalized tokens that occur in the evidence text
CapsMatched(e) == Cardinality(CapsOf(claim) \cap CapsOf(EvText(e)))

\* C7 as stated: the entity weight is 0.5 + 0.5 * overlap_ratio when the claim
\* has a capitalized token (0.75 when half of them match), and 0.8 otherwise.
C7_EntityWeightHalfSlope ==
    \A e \in Records :
        IF CapsOf(claim) = {}
        THEN e.weights.entity = 800
        ELSE Cardinality(CapsOf(claim)) * (e.weights.entity - 500)
                 = 500 * CapsMatched(e)

\* C8 as stated: for a date that parses the recency weight is 0.5^(age/180)
\* clamped to [0.5, 1.0]; 0.7 is returned only for a missing or unparsable
\* date.
C8_RecencyOfParsedDate ==
    \A e \in Records :
        IF e.publishedAt.kind = "iso"
        THEN e.weights.date =
                 PyRound(Max(5000, Min(10000, HalfPow(Max(0, e.publishedAt.age)))), 10)
        ELSE e.weights.date = 700

\* C9: the recency weight is exactly 1.0 for a date of today or of the
\* future, exactly 0.5 for a date 180 days old, and exactly 0.7 for a missing
\* date.
C9_RecencyFixedPoints ==
    \A e \in Records :
        LET p == e.publishedAt
        IN  /\ p.kind = "iso" /\ p.age <= 0 =>
                   _date_weight(p) = 10000 /\ e.weights.date = 1000
            /\ p.kind = "iso" /\ p.age = 180 =>
                   _date_weight(p) = 5000 /\ e.weights.date = 500
            /\ p.kind = "none" =>
                   _date_weight(p) = 7000 /\ e.weights.date = 700

\* a record of an article dated in the future
C9_Witness ==
    \E e \in Records :
        /\ e.publishedAt.kind = "iso"
        /\ e.publishedAt.age < 0
        /\ e.weights.date = 1000

\* number of the claim's numbers that approximately match an evidence number
NumsMatched(e) ==
    LET nc == NumsOf(claim)
        nt == NumsOf(EvText(e))
    IN  Cardinality({i \in 1..Len(nc) : \E j \in 1..Len(nt) : approx(nc[i], nt[j])})

\* C10: the numeric weight is 0.9 when the claim has no number, 0.7 when the
\* claim has numbers and the evidence none, otherwise 0.6 when no claim
\* number matches and 0.7 + 0.3 * matched / total when one does; it always
\* lies in [0.6, 1.0].
C10_NumberWeight ==
    \A e \in Records :
        LET nc == NumsOf(claim)
            nt == NumsOf(EvText(e))
            w == e.weights.number
        IN  /\ nc = <<>> => w = 900
            /\ nc # <<>> /\ nt = <<>> => w = 700
            /\ nc # <<>> /\ nt # <<>> /\ NumsMatched(e) = 0 => w = 600
            /\ nc # <<>> /\ nt # <<>> /\ NumsMatched(e) > 0 =>
                   Len(nc) * (w - 700) = 300 * NumsMatched(e)
            /\ w >= 600
            /\ w <= 1000

\* a record where one of the claim's two numbers matches
C10_Witness ==
    \E e \in Records :
        /\ Len(NumsOf(claim)) = 2
        /\ NumsMatched(e) = 1
        /\ e.weights.number = 850

---------------------------------------------------------------------------
(* Trust tier of a URL *)

\* the URL has a network location that urlparse accepts
HasNetloc(url) == ~url.none /\ url.scheme # "" /\ ~UrlparseRaises(url)

\* the tier of the last two labels of a host
RankOfRegistrable(h) ==
    IF Len(h) >= 2 /\ LastLabels(h, 2) \in HighDomains THEN 3
    ELSE IF Len(h) >= 2 /\ LastLabels(h, 2) \in MediumDomains THEN 2
    ELSE 1

---------------------------------------------------------------------------
(* Stance of the evidence records *)

StanceLabels == {"entailment", "contradiction", "neutral"}

\* C12: every evidence record carries a stance label of {entailment,
\* contradiction, neutral} and a stance score in [0, 1], whichever tier
\* produced it and whatever the remote service answered.
C12_StanceInRange ==
    \A i \in 1..Len(evidence) :
        /\ evidence[i].stance \in StanceLabels
        /\ evidence[i].stance_score >= 0
        /\ evidence[i].stance_score <= 10

\* C13: the tiers are tried in the order remote, local model, lexical
\* fallback: when the remote call failed or was short-circuited by the open
\* breaker the local model is consulted.
C13_LocalAfterRemoteFailure ==
    \A i \in 1..Len(resolved) :
        resolved[i].how \in {"failed", "open"} => "local" \in Range(resolved[i].tiers)

---------------------------------------------------------------------------
(* The circuit breaker *)

\* thread t enters call_ml_service in this step
Enters(t) == calls[t].pc = "idle" /\ calls'[t] # calls[t]

\* C14: while the breaker is open (the time is before _CB_OPEN_UNTIL) a call
\* makes no HTTP attempt, returns neutral 0.0 in the step that entered it,
\* and leaves _CB_FAILS and _CB_OPEN_UNTIL as they were.
C14_OpenBreakerShortCircuits ==
    [][\A t \in Threads :
          (Enters(t) /\ _CB_OPEN_UNTIL # 0 /\ now < _CB_OPEN_UNTIL) =>
              /\ calls'[t].pc = "idle"
              /\ calls'[t].outs = <<>>
              /\ calls'[t].ret = <<St("neutral", 0)>>
              /\ calls'[t].n = calls[t].n + 1
              /\ _CB_FAILS' = _CB_FAILS
              /\ _CB_OPEN_UNTIL' = _CB_OPEN_UNTIL]_vars

\* a call has been short-circuited by the open breaker
C14_Witness ==
    /\ calls[1].pc = "idle"
    /\ calls[1].how = "open"
    /\ calls[1].ret = <<St("neutral", 0)>>
    /\ now < _CB_OPEN_UNTIL
    /\ _CB_FAILS = _CB_THRESHOLD

\* C15: in a sequential run, after every call _CB_OPEN_UNTIL is set exactly
\* when _CB_FAILS has reached the threshold; _CB_FAILS is the number of
\* failed invocations since the last successful one, each counted once
\* whatever its number of attempts; a successful invocation leaves
\* _CB_FAILS = 0 and _CB_OPEN_UNTIL unset.
C15_BreakerFollowsCounter ==
    calls[1].pc = "idle" =>
        /\ (_CB_OPEN_UNTIL # 0) <=> (_CB_FAILS >= _CB_THRESHOLD)
        /\ _CB_FAILS = failedSince
        /\ calls[1].how = "answered" => (_CB_FAILS = 0 /\ _CB_OPEN_UNTIL = 0)

\* the third failed invocation in a row, one of three attempts, has opened
\* the breaker
C15_Witness ==
    /\ calls[1].pc = "idle"
    /\ calls[1].how = "failed"
    /\ Len(calls[1].outs) = 3
    /\ failedSince = _CB_THRESHOLD
    /\ _CB_FAILS = _CB_THRESHOLD
    /\ _CB_OPEN_UNTIL # 0

\* C16: under every interleaving of two threads no failure is lost and no
\* reset is undone: once the threshold number of failed invocations have
\* completed with no success among or after them the breaker is open, and
\* no thread writes back a counter value it read before a success that has
\* completed since.
C16_NoLostFailureNoUndoneReset ==
    /\ failedSince >= _CB_THRESHOLD => _CB_OPEN_UNTIL # 0
    /\ \A t \in Threads : ~calls[t].undid

\* the outcomes after which the claim lets an attempt be retried
ServerClass == {"5xx", "exc"}

\* C17 as stated: at most 3 attempts, and an attempt is followed by another
\* one only when it ended with a 5xx response or a transport exception.
C17_RetryOnlyOnServerClass ==
    \A t \in Threads :
        /\ Len(calls[t].outs) <= 3
        /\ \A i \in 1..(Len(calls[t].outs) - 1) : calls[t].outs[i] \in ServerClass

\* C17: an invocation makes at most 3 attempts; the delay after attempt i is
\* backoffs[i], so 0.5 s and 1.0 s lie between attempts and 2.0 s is slept
\* only after a third 5xx response; an attempt is followed by another one
\* only when it ended with a 5xx response or with an exception, raised by
\* the request or by the decoding of a 200 response; any other status ends
\* the invocation, without a delay, as a failure.
C17_BoundedRetry ==
    \A t \in Threads :
        LET c == calls[t]
            o == c.outs
        IN  /\ Len(o) <= 3
            /\ \A i \in 1..(Len(o) - 1) : o[i] \in {"5xx", "exc", "badbody"}
            /\ \A i \in 1..Len(c.slept) : c.slept[i] = backoffs[i]
            /\ Len(c.slept) <= Len(o)
            /\ Len(o) <= Len(c.slept) + 1
            /\ Len(c.slept) = 3 => o[3] = "5xx"
            /\ \A i \in 1..Len(o) :
                   o[i] = "other" =>
                       /\ i = Len(o)
                       /\ Len(c.slept) = i - 1
                       /\ c.pc \in {"read_fails", "write_fails", "test", "open", "idle"}
                       /\ c.pc = "idle" => (c.how = "failed" /\ c.ret = <<St("neutral", 0)>>)

\* an invocation has failed after a 5xx response, an undecodable 200
\* response and an exception, with 0.5 s and 1.0 s between the attempts
C17_Witness ==
    /\ calls[1].pc = "idle"
    /\ calls[1].how = "failed"
    /\ calls[1].outs = <<"5xx", "badbody", "exc">>
    /\ calls[1].slept = <<5, 10>>

---------------------------------------------------------------------------
(* Citations *)

\* positions of the evidence whose stance is entailment or contradiction
Decisive == {i \in 1..Len(evidence) : evidence[i].stance \in {"entailment", "contradiction"}}

\* number of decisive items that come before item i in the citation order:
\* those with a higher score, and those with the same score earlier in the
\* list
Before(i) ==
    Cardinality({j \in Decisive :
        \/ evidence[j].stance_score > evidence[i].stance_score
        \/ evidence[j].stance_score = evidence[i].stance_score /\ j < i})

\* C18: the citations are the min(2, k) decisive items with the highest
\* stance scores, in descending score order with ties in input order,
\* numbered from 1; an item with another stance is never cited; with no
\* decisive item the list is empty and the paragraph has the sentence
\* "No decisive sources found.".
C18_Citations ==
    pc = "done" =>
        /\ Len(out.citations) = Min(2, Cardinality(Decisive))
        /\ \A n \in 1..Len(out.citations) :
               \E i \in Decisive :
                   /\ Before(i) = n - 1
                   /\ out.citations[n] = [index |-> n,
                                          source |-> evidence[i].source,
                                          date |-> DatePrefix(evidence[i].publishedAt),
                                          url |-> evidence[i].url]
        /\ Decisive = {} <=> out.sent3 = "No decisive sources found."

\* three decisive items, the first with the lowest score and the other two
\* tied: the second and the third are cited, in that order
C18_Witness ==
    /\ pc = "done"
    /\ Len(evidence) = 3
    /\ Decisive = {1, 2, 3}
    /\ evidence[1].stance_score < evidence[2].stance_score
    /\ evidence[2].stance_score = evidence[3].stance_score
    /\ Len(out.citations) = 2
    /\ out.citations[1].url = evidence[2].url
    /\ out.citations[2].url = evidence[3].url

---------------------------------------------------------------------------
(* Claim extraction *)

\* positions, among the first 8 sentences, of those the pattern matches
Matching(sents) == {i \in 1..Min(8, Len(sents)) : Relevant(sents[i])}

\* C19: extract_claims returns [] for the empty text; otherwise the first
\* max_claims matching sentences among the first 8, in their order, and the
\* first sentence alone when none of the 8 matches; never more than
\* max_claims entries, never a sentence found only after the 8th.
C19_ExtractClaims ==
    fout # <<>> =>
        LET r == fout[1]
            sents == Sentences(fin.text)
            M == Matching(sents)
        IN  /\ Len(r) <= fin.max_claims
            /\ fin.text = EmptyText => r = <<>>
            /\ (fin.text # EmptyText /\ M = {}) => r = <<sents[1]>>
            /\ (fin.text # EmptyText /\ M # {}) =>
                   /\ Len(r) = Min(fin.max_claims, Cardinality(M))
                   /\ \A n \in 1..Len(r) :
                          \E i \in M : /\ Cardinality({j \in M : j < i}) = n - 1
                                       /\ r[n] = sents[i]

\* nine sentences, the pattern matches the ninth only: the first is returned
C19_Witness ==
    /\ fout # <<>>
    /\ fin.text = TextOf([i \in 1..9 |-> IF i = 9 THEN "grew 5%." ELSE "rained."], FALSE)
    /\ fin.max_claims = 3
    /\ fout[1] = << <<"rained.">> >>

---------------------------------------------------------------------------
(* The two scoring schemes *)

\* C20: calculate_final_score is applied only when there is no scored
\* evidence: when the evidence list is not empty, the verdict the response
\* reports as final is the verdict of the evidence-weighted scheme.
C20_FinalFromEvidence ==
    (pc = "responded" /\ evidence # <<>>) => final.verdict = out.verdict

\* the value of key k of a dict, 0 when the key is missing
KeyOr0(d, k) == IF k \in DOMAIN d THEN d[k] ELSE 0

\* C21: calculate_final_score returns score = (confirmed - disputed) * 2 -
\* sensational_count for all integer inputs, a missing key counting as 0, with
\* verdict Likely True when score >= 3, Uncertain when 0 <= score < 3 and
\* Likely Fake when score < 0.
C21_FinalScore ==
    fout # <<>> =>
        LET c == KeyOr0(fin.verification, "confirmed")
            d == KeyOr0(fin.verification, "disputed")
            w == KeyOr0(fin.bias, "sensational_count")
            r == fout[1]
        IN  /\ r.score = (c - d) * 2 - w
            /\ r.score >= 3 => r.verdict = "Likely True"
            /\ (0 <= r.score /\ r.score < 3) => r.verdict = "Uncertain"
            /\ r.score < 0 => r.verdict = "Likely Fake"

\* the disputed key is missing, one confirmation and no sensational word:
\* score 2, Uncertain
C21_Witness ==
    /\ fout # <<>>
    /\ DOMAIN fin.verification = {"confirmed"}
    /\ fin.verification["confirmed"] = 1
    /\ fin.bias = [k \in {"sensational_count"} |-> 0]
    /\ fout[1] = [score |-> 2, verdict |-> "Uncertain"]

---------------------------------------------------------------------------
(* The per-source report and the cross-verification counts *)

\* the entries of source_breakdown, as a set
Reports == Range(cross.source_breakdown)

\* the sensational words and the words of five or more capitals in the
\* title and description of an article
BiasScoreOf(article) ==
    LET content == article.title \o article.description
    IN  Cardinality({w \in Sensational : \E i \in 1..Len(content) : Vocab[content[i]].low = w})
        + Cardinality({i \in 1..Len(content) : content[i] \in AllCaps5})

\* 1 when more than 30 percent of the different words of the request text
\* occur in the title and description of the article
RelevanceBonusOf(article, text) ==
    LET words == SplitLower(text)
        k == Cardinality(words \cap SplitLower(article.title \o article.description))
    IN  IF 10 * k > 3 * Cardinality(words) THEN 1 ELSE 0

C30_CountsAgreeWithTags ==
    pc \in {"retrieve", "scoring", "done", "responded"} =>
        /\ cross.confirmed_count + cross.disputed_count = cross.articles_found
        /\ cross.articles_found = Len(cross.source_breakdown)
        /\ cross.confirmed_count =
               Cardinality({i \in 1..Len(cross.source_breakdown) :
                   cross.source_breakdown[i].info.contributes_to_verdict = "CONFIRM"})
        /\ cross.disputed_count =
               Cardinality({i \in 1..Len(cross.source_breakdown) :
                   cross.source_breakdown[i].info.contributes_to_verdict = "DISPUTE"})

---------------------------------------------------------------------------
(* Independence of the two verdict schemes *)

\* the second of two requests has been answered
BothAnswered == pc = "responded" /\ prev # <<>>

\* what the count-based scheme reads
CountsOf(c, b) == <<c.confirmed_count, c.disputed_count, b.sensational_count>>

\* C22: for two requests with the same scored evidence records the claim
\* verdict, confidence and stance totals are identical whatever the
\* corroboration articles, the counts, the per-source reports and the
\* sensational-word count are; and for the same confirmed, disputed and
\* sensational counts the fallback verdict is identical whatever the
\* evidence stances are.
C22_SchemesIndependent ==
    BothAnswered =>
        /\ evidence = prev[1].evidence =>
               /\ out.verdict = prev[1].out.verdict
               /\ out.confidence = prev[1].out.confidence
               /\ out.stance_totals = prev[1].out.stance_totals
        /\ CountsOf(cross, bias) = CountsOf(prev[1].cross, prev[1].bias) =>
               final = prev[1].final

\* two answered requests with the same evidence records, one corroborated
\* and free of sensational words, the other neither
C22_Witness ==
    /\ BothAnswered
    /\ evidence # <<>>
    /\ evidence = prev[1].evidence
    /\ cross.confirmed_count > prev[1].cross.confirmed_count
    /\ cross.source_breakdown # prev[1].cross.source_breakdown
    /\ bias.sensational_count < prev[1].bias.sensational_count
    /\ final.verdict # prev[1].final.verdict
    /\ out.verdict = prev[1].out.verdict

\* two answered requests with the same counts and opposite evidence
C22_WitnessCounts ==
    /\ BothAnswered
    /\ CountsOf(cross, bias) = CountsOf(prev[1].cross, prev[1].bias)
    /\ out.verdict = "True"
    /\ prev[1].out.verdict = "False"
    /\ final = prev[1].final

---------------------------------------------------------------------------
(* The HTTP routes *)

\* C24: on /verify, /verify-image and /verify-url an unexpected exception
\* raised by the pipeline is answered with HTTP 500 whose detail is the
\* exception message; an HTTP error raised deliberately by the route (400 for
\* no readable text, 502 for an unfetchable URL) keeps its own status and is
\* never converted to 500; a request whose retrieval finds nothing is
\* answered with a normal response carrying an Unverified claim verdict.
C24_RouteStatus ==
    http.stage = "sent" =>
        /\ exc # <<>> => http.status = 500 /\ http.detail = exc[1]
        /\ http.raised # 0 => http.status = http.raised
        /\ http.raised \in {400, 502} => http.status # 500
        /\ (pc = "responded" /\ cross.articles_found = 0 /\ evidence = <<>>) =>
               http.status = 200 /\ out.verdict = "Unverified"

\* /verify-url has answered 500 with the message of the TypeError that an
\* article without description raised in the pipeline
C24_Witness ==
    /\ http.stage = "sent"
    /\ http.route = "verify-url"
    /\ pc = "raised"
    /\ exc = <<"can only concatenate str (not \"NoneType\") to str">>
    /\ http.status = 500
    /\ http.detail = exc[1]

---------------------------------------------------------------------------
(* Failure of the stance resolution of one item *)

\* the resolution of evidence item i failed: the remote call failed or was
\* short-circuited, or the transformers pipeline raised
ResolutionFailed(i) == resolved[i].how \in {"failed", "open", "raised"}

\* a sequence without its i-th element
Without(seq, i) == SubSeq(seq, 1, i - 1) \o SubSeq(seq, i + 1, Len(seq))

FiveVerdicts == {"True", "False", "Partly True", "Misleading", "Unverified"}

\* C25: a failure while resolving the stance of one evidence item never
\* aborts the request: the item is recorded with stance neutral and score
\* 0.0, so it adds 0 to every total, every other item is still scored and
\* aggregated, and the request returns one of the five verdicts.
C25_FailureNeutralised ==
    /\ pc # "raised"
    /\ Len(resolved) = Len(evidence)
    /\ \A i \in 1..Len(evidence) :
           ResolutionFailed(i) =>
               /\ evidence[i].stance = "neutral"
               /\ evidence[i].stance_score = 0
               /\ SupportOf(Without(evidence, i)) = SupportOf(evidence)
               /\ RefuteOf(Without(evidence, i)) = RefuteOf(evidence)
               /\ NeutralOf(Without(evidence, i)) = NeutralOf(evidence)
    /\ pc \in {"done", "responded"} =>
           /\ Len(evidence) = Len(SelectSeq(pool, LAMBDA a : EvText(a) # <<>>))
           /\ out.evidence_count = Len(evidence)
           /\ out.verdict \in FiveVerdicts
           /\ out.stance_totals.support = Round3(SupportOf(evidence))
           /\ out.stance_totals.refute = Round3(RefuteOf(evidence))

\* a request of two items has finished with verdict True: the remote call
\* failed for the first item and answered entailment for the second
C25_Witness ==
    /\ pc = "done"
    /\ Len(evidence) = 2
    /\ resolved[1].how = "failed"
    /\ evidence[1].stance_score = 0
    /\ evidence[2].stance = "entailment"
    /\ out.verdict = "True"

\* the cooldown has elapsed and the breaker has not been closed since
HalfOpen == _CB_OPEN_UNTIL # 0 /\ now >= _CB_OPEN_UNTIL

\* the breaker is closed
Closed == _CB_OPEN_UNTIL = 0 /\ _CB_FAILS = 0

\* a call arriving after the cooldown posts to the remote service
HalfOpenContacts ==
    [][(calls[1].pc = "idle" /\ HalfOpen
            /\ (calls'[1].pc # "idle" \/ calls'[1].n = calls[1].n + 1)) =>
           calls'[1].pc = "attempt"]_vars

\* a call that fails while the breaker variable is still set re-opens the
\* breaker for a full cooldown from the time of the failure, its failure
\* being the only one since the breaker opened before
HalfOpenFailureReopens ==
    [][(calls[1].pc # "idle" /\ calls'[1].pc = "idle"
            /\ calls'[1].how = "failed" /\ _CB_OPEN_UNTIL # 0) =>
           /\ HalfOpen
           /\ _CB_OPEN_UNTIL' = now + _CB_COOLDOWN
           /\ _CB_FAILS' > _CB_THRESHOLD
           /\ Len(calls'[1].outs) = 1]_vars

\* C26: once the cooldown has elapsed the next call contacts the remote
\* service; a success closes the breaker with the failure counter at 0; a
\* failure re-opens it for a full cooldown after that single failure, the
\* counter having kept its value through the cooldown; and if the remote
\* service recovers while calls keep arriving and time passes, an open
\* breaker is eventually closed.
C26_HalfOpenRecovery ==
    /\ HalfOpenContacts
    /\ HalfOpenFailureReopens
    /\ []((_CB_OPEN_UNTIL # 0 /\ calls[1].pc # "reset_open") =>
             _CB_FAILS >= _CB_THRESHOLD)
    /\ []((calls[1].pc = "idle" /\ calls[1].how = "answered") => Closed)
    /\ (_CB_OPEN_UNTIL # 0) ~> Closed

\* the breaker opened, a first call after the cooldown failed and re-opened
\* it, and a call after the second cooldown succeeded and closed it
C26_Witness ==
    /\ calls[1].pc = "idle"
    /\ calls[1].how = "answered"
    /\ calls[1].n = _CB_THRESHOLD + 2
    /\ now = 2 * _CB_COOLDOWN
    /\ Closed

\* the urls of a result list, in order
UrlsOf(l) == [i \in 1..Len(l) |-> l[i].url]

\* search_web_multi has returned
MultiReturned == fin \in MultiArgs /\ fout # <<>>

\* what the result list satisfies whatever max_results is: no url twice,
\* no item without a url, NewsAPI items ahead of Bing items, every item one
\* a queried provider returned, Bing queried only when the NewsAPI items
\* left the quota open, [] when both providers fail
MultiWellFormed ==
    MultiReturned =>
        LET res == fout[1].results
            n == Len(res)
        IN  /\ \A i, j \in 1..n : res[i].url = res[j].url => i = j
            /\ \A i \in 1..n : res[i].url # ""
            /\ \A i, j \in 1..n : (res[i].via = "bing" /\ res[j].via = "newsapi") => j < i
            /\ \A i \in 1..n : res[i].via \in Range(fout[1].queried)
            /\ fout[1].queried[1] = "newsapi"
            /\ Len(fout[1].queried) = 2 =>
                   Len(SelectSeq(res, LAMBDA h : h.via = "newsapi")) < fin.max_results
            /\ (search_web(fin.news) = <<>> /\ search_web_bing(fin.bing) = <<>>) => res = <<>>

\* with max_results >= 1 the result list has at most max_results items
MultiWithinQuota ==
    (MultiReturned /\ fin.max_results >= 1) =>
        /\ Len(fout[1].results) <= fin.max_results
        /\ MultiWellFormed

\* C27: for every non-negative max_results search_web_multi returns at most
\* max_results items, no two with the same url and none without a url,
\* NewsAPI items ahead of Bing items; Bing is not queried when the NewsAPI
\* items fill the quota; when both providers fail the result is [].
C27_AtMostMaxResults ==
    /\ MultiWellFormed
    /\ MultiReturned => Len(fout[1].results) <= fin.max_results

\* a reported total, in the unit of the thresholds
Reported(t) == 100 * t

\* C28: the totals reported in claim_verdict, rounded to 3 decimals, are
\* consistent with the reported verdict and confidence: the ordered threshold
\* rules and the confidence formula applied to the reported totals give the
\* reported verdict and the reported confidence.
C28_ReportedTotalsReproduce ==
    pc = "done" =>
        LET t == out.stance_totals
        IN  /\ VerdictRule(Reported(t.support), Reported(t.refute)) = out.verdict
            /\ Confidence(Reported(t.support), Reported(t.refute), Reported(t.neutral))
                   = out.confidence

\* the stance of an item is neither entailment nor contradiction
OtherLabel(e) == e.stance \notin {"entailment", "contradiction"}

\* C29: evidence labelled neither entailment nor contradiction does not
\* influence the verdict: without any one such item the request has the same
\* support, the same refute and the same verdict, and only the neutral total
\* and the confidence may differ; when no item is labelled entailment or
\* contradiction the verdict is Unverified, whatever the confidence.
C29_OtherLabelsFrame ==
    pc = "done" =>
        /\ out.stance_totals.support = Round3(SupportOf(evidence))
        /\ out.stance_totals.refute = Round3(RefuteOf(evidence))
        /\ \A i \in 1..Len(evidence) :
               OtherLabel(evidence[i]) =>
                   LET less == ClaimVerdict(claim, Without(evidence, i))
                   IN  /\ less.verdict = out.verdict
                       /\ less.stance_totals.support = out.stance_totals.support
                       /\ less.stance_totals.refute = out.stance_totals.refute
                       /\ SupportOf(Without(evidence, i)) = SupportOf(evidence)
                       /\ RefuteOf(Without(evidence, i)) = RefuteOf(evidence)
        /\ (\A i \in 1..Len(evidence) : OtherLabel(evidence[i])) =>
               /\ out.verdict = "Unverified"
               /\ out.stance_totals.support = 0
               /\ out.stance_totals.refute = 0

\* a request has finished whose evidence is labelled neither entailment nor
\* contradiction, one item with a label outside the three: the confidence
\* is 100, and the verdict Unverified
C29_Witness ==
    /\ pc = "done"
    /\ Len(evidence) >= 2
    /\ \A i \in 1..Len(evidence) : OtherLabel(evidence[i])
    /\ \E i \in 1..Len(evidence) : evidence[i].stance = "supports"
    /\ \E i \in 1..Len(evidence) : evidence[i].stance = "neutral"
    /\ out.confidence = 100
    /\ out.stance_totals.neutral > 0
    /\ out.verdict = "Unverified"

\* a request has finished with verdict True and a neutral item among its
\* evidence, whose removal changes the confidence
C29_WitnessMixed ==
    /\ pc = "done"
    /\ out.verdict = "True"
    /\ \E i \in 1..Len(evidence) :
           /\ OtherLabel(evidence[i])
           /\ ClaimVerdict(claim, Without(evidence, i)).confidence # out.confidence

====
